---- MODULE Spec2Model ----
(***************************************************************************)
(* Model of the AI news crawler's aggregation pipeline:                    *)
(* ScraperService (scrapeReddit, scrapeResearchPapers, scrapeAINews,       *)
(* scrapeAllSources) with its recency, trending and significance filters.  *)
(* Time is in milliseconds, as in JavaScript Date values, counted from an  *)
(* origin chosen so that every instant fits the model checker's integers.  *)
(***************************************************************************)
EXTENDS Integers, Sequences, FiniteSets, TLC

(***************************************************************************)
(* Bounds of the model                                                     *)
(***************************************************************************)
\* total number of raw items the origins hand out in one run (big listings apart)
MaxItems == 2
\* number of requests that may fail (reject or return a malformed body) in one run
MaxFailures == 1
\* number of one-second steps the wall clock may advance during one run
MaxDrift == 1
\* number of items in the big listing the last origin of a fetcher may return
BigLen == 16

(***************************************************************************)
(* JavaScript values                                                       *)
(***************************************************************************)
Num(n) == [k |-> "num", v |-> n]
NaN == [k |-> "nan", v |-> 0]
Undef == [k |-> "undef", v |-> 0]
Str(s) == [k |-> "str", v |-> s]
UndefStr == [k |-> "undef", v |-> <<>>]

ToNumber(x) == IF x.k = "num" THEN x ELSE NaN
JsAdd(a, b) ==
  LET x == ToNumber(a)
      y == ToNumber(b)
  IN IF x.k = "nan" \/ y.k = "nan" THEN NaN ELSE Num(x.v + y.v)
JsSub(a, b) ==
  LET x == ToNumber(a)
      y == ToNumber(b)
  IN IF x.k = "nan" \/ y.k = "nan" THEN NaN ELSE Num(x.v - y.v)
JsMul(a, b) ==
  LET x == ToNumber(a)
      y == ToNumber(b)
  IN IF x.k = "nan" \/ y.k = "nan" THEN NaN ELSE Num(x.v * y.v)
\* relational operators: any comparison with NaN is false
JsGt(a, b) ==
  LET x == ToNumber(a)
      y == ToNumber(b)
  IN x.k = "num" /\ y.k = "num" /\ x.v > y.v
JsGe(a, b) ==
  LET x == ToNumber(a)
      y == ToNumber(b)
  IN x.k = "num" /\ y.k = "num" /\ x.v >= y.v
JsLe(a, b) == JsGe(b, a)
\* a || b on a boolean-or-undefined left operand
Truthy(x) == x = TRUE

\* ToString of a text field: undefined prints as "undefined"
ToStringJs(x) ==
  IF x.k = "str" THEN x.v ELSE <<"u","n","d","e","f","i","n","e","d">>
\* a + ' ' + b
Concat3(a, b) == ToStringJs(a) \o <<" ">> \o ToStringJs(b)

UpperChars == <<"A","B","C","D","E","F","G","H","I","J","K","L","M",
                "N","O","P","Q","R","S","T","U","V","W","X","Y","Z">>
LowerChars == <<"a","b","c","d","e","f","g","h","i","j","k","l","m",
                "n","o","p","q","r","s","t","u","v","w","x","y","z">>
toLowerChar(c) ==
  IF \E i \in 1..26 : UpperChars[i] = c
    THEN LowerChars[CHOOSE i \in 1..26 : UpperChars[i] = c]
    ELSE c
toLowerCase(s) == [i \in 1..Len(s) |-> toLowerChar(s[i])]
includes(text, word) ==
  \E i \in 0..(Len(text) - Len(word)) : SubSeq(text, i + 1, i + Len(word)) = word

(***************************************************************************)
(* Dates.  A date string is parseable (it denotes an instant) or not;      *)
(* new Date(string) yields the instant or an Invalid Date (time NaN).      *)
(***************************************************************************)
DateStr(ms) == [k |-> "date", v |-> ms]
BadDateStr == [k |-> "garbage", v |-> 0]
NoDateStr == [k |-> "undef", v |-> 0]
\* new Date(dateString).getTime()
ParseDate(d) == IF d.k = "date" THEN Num(d.v) ELSE NaN
\* new Date(number).getTime()
DateOfNumber(x) == ToNumber(x)
\* a conversion that gives an unparseable string for an invalid date and never throws
toISOStringLenient(t) == IF t.k = "num" THEN [threw |-> FALSE, v |-> DateStr(t.v)]
                                        ELSE [threw |-> FALSE, v |-> BadDateStr]
\* Date.prototype.toISOString: a string for a valid date, a RangeError otherwise
toISOString(t) == IF t.k = "num" THEN [threw |-> FALSE, v |-> DateStr(t.v)]
                                 ELSE [threw |-> TRUE, v |-> BadDateStr]

DayMs == 24 * 60 * 60 * 1000
ThreeDaysMs == 3 * 24 * 60 * 60 * 1000

\* a window that leaves out its first instant
isFromTodayExclusive(dateString, clock) ==
  LET contentDate == ParseDate(dateString)
      yesterday == Num(clock - DayMs)
  IN JsGt(contentDate, yesterday) /\ JsLe(contentDate, Num(clock))
\* isFromToday, `clock` being the value of new Date() inside the call
isFromToday(dateString, clock) ==
  LET contentDate == ParseDate(dateString)
      yesterday == Num(clock - DayMs)
  IN JsGe(contentDate, yesterday) /\ JsLe(contentDate, Num(clock))

\* isFromTodayUnix, `clock` being the value of new Date() inside the call
isFromTodayUnix(unixTimestamp, clock) ==
  LET contentDate == DateOfNumber(JsMul(unixTimestamp, Num(1000)))
      yesterday == Num(clock - DayMs)
  IN JsGe(contentDate, yesterday) /\ JsLe(contentDate, Num(clock))

\* a window of one day on the papers
isRecentWithinDay(publishedDate, todayMs) ==
  LET paperDate == ParseDate(publishedDate)
      dayAgo == Num(todayMs - DayMs)
  IN JsGe(paperDate, dayAgo) /\ JsLe(paperDate, Num(todayMs))
\* scrapeResearchPapers: isRecent, against the `today` taken once per fetch
isRecent(publishedDate, todayMs) ==
  LET paperDate == ParseDate(publishedDate)
      threeDaysAgo == Num(todayMs - ThreeDaysMs)
  IN JsGe(paperDate, threeDaysAgo) /\ JsLe(paperDate, Num(todayMs))

significantKeywords ==
  << <<"b","r","e","a","k","t","h","r","o","u","g","h">>,
     <<"a","d","v","a","n","c","e","m","e","n","t">>,
     <<"n","e","w"," ","m","o","d","e","l">>,
     <<"s","t","a","t","e"," ","o","f"," ","t","h","e"," ","a","r","t">>,
     <<"s","o","t","a">>,
     <<"s","i","g","n","i","f","i","c","a","n","t">>,
     <<"r","e","v","o","l","u","t","i","o","n","a","r","y">>,
     <<"g","r","o","u","n","d","b","r","e","a","k","i","n","g">>,
     <<"m","a","j","o","r">>,
     <<"i","m","p","o","r","t","a","n","t">>,
     <<"r","e","l","e","a","s","e">>,
     <<"a","n","n","o","u","n","c","e","m","e","n","t">>,
     <<"l","a","u","n","c","h">>,
     <<"u","p","d","a","t","e">>,
     <<"i","m","p","r","o","v","e","m","e","n","t">>,
     <<"o","u","t","p","e","r","f","o","r","m","s">>,
     <<"b","e","t","t","e","r"," ","t","h","a","n">>,
     <<"s","u","r","p","a","s","s","e","s">>,
     <<"a","c","h","i","e","v","e","s">>,
     <<"m","i","l","e","s","t","o","n","e">> >>

\* the origin table of scrapeReddit
subreddits ==
  << [name |-> "artificial", category |-> "general", minScore |-> 100],
     [name |-> "MachineLearning", category |-> "research", minScore |-> 50],
     [name |-> "AIdev", category |-> "development", minScore |-> 30],
     [name |-> "OpenAI", category |-> "companies", minScore |-> 50],
     [name |-> "deeplearning", category |-> "research", minScore |-> 50],
     [name |-> "artificial_intelligence", category |-> "general", minScore |-> 100],
     [name |-> "AIethics", category |-> "ethics", minScore |-> 50],
     [name |-> "AGI", category |-> "research", minScore |-> 30],
     [name |-> "ChatGPT", category |-> "applications", minScore |-> 100],
     [name |-> "StableDiffusion", category |-> "applications", minScore |-> 50],
     [name |-> "LocalLLaMA", category |-> "development", minScore |-> 30] >>

categories == << "cs.AI", "cs.LG", "cs.CL", "cs.CV", "cs.RO", "cs.NE", "stat.ML" >>

newsSources ==
  << [name |-> "MIT Technology Review - AI", category |-> "research"],
     [name |-> "VentureBeat AI", category |-> "industry"],
     [name |-> "AI News", category |-> "general"],
     [name |-> "Synced", category |-> "industry"],
     [name |-> "Unite.AI", category |-> "general"] >>

\* the caps of the three fetchers
RedditCap == 15
ResearchCap == 10
NewsCap == 10
\* the comment count above which a post is trending whatever its score
CommentsTrending == 50

(***************************************************************************)
(* Array.prototype.sort as Node's engine runs it on an array shorter than  *)
(* 64 elements: one natural run is found (and reversed when it is strictly *)
(* descending under the comparator), then the rest is placed by binary     *)
(* insertion.  A comparator result of NaN counts as 0.                     *)
(***************************************************************************)
\* (a, b) => b.engagement - a.engagement
byEngagement(a, b) == JsSub(b.engagement, a.engagement)
\* (a, b) => new Date(b.date) - new Date(a.date)
byDate(a, b) == JsSub(ParseDate(b.date), ParseDate(a.date))

SortCompare(kind, x, y) ==
  LET v == IF kind = "engagement" THEN byEngagement(x, y) ELSE byDate(x, y)
  IN IF v.k = "nan" THEN 0 ELSE v.v

Reverse(s) == [i \in 1..Len(s) |-> s[Len(s) + 1 - i]]

RECURSIVE RunEnd(_, _, _, _)
RunEnd(a, kind, desc, i) ==
  IF i > Len(a) THEN Len(a)
  ELSE LET order == SortCompare(kind, a[i], a[i - 1])
       IN IF (desc /\ order >= 0) \/ (~desc /\ order < 0)
            THEN i - 1
            ELSE RunEnd(a, kind, desc, i + 1)

RECURSIVE BinarySearch(_, _, _, _, _)
\* left and right are 0-based, as in the engine
BinarySearch(a, kind, pivot, left, right) ==
  IF left >= right THEN left
  ELSE LET mid == left + ((right - left) \div 2)
           order == SortCompare(kind, pivot, a[mid + 1])
       IN IF order < 0 THEN BinarySearch(a, kind, pivot, left, mid)
                       ELSE BinarySearch(a, kind, pivot, mid + 1, right)

RECURSIVE BinaryInsertionSort(_, _, _)
\* start is the 1-based index of the first element not yet placed
BinaryInsertionSort(a, kind, start) ==
  IF start > Len(a) THEN a
  ELSE LET pivot == a[start]
           left == BinarySearch(a, kind, pivot, 0, start - 1)
           placed == SubSeq(a, 1, left) \o <<pivot>>
                       \o SubSeq(a, left + 1, start - 1)
                       \o SubSeq(a, start + 1, Len(a))
       IN BinaryInsertionSort(placed, kind, start + 1)

ArraySort(a, kind) ==
  IF Len(a) < 2 THEN a
  ELSE LET desc == SortCompare(kind, a[2], a[1]) < 0
           runLength == RunEnd(a, kind, desc, 3)
           run == IF desc THEN Reverse(SubSeq(a, 1, runLength)) \o SubSeq(a, runLength + 1, Len(a))
                          ELSE a
       IN BinaryInsertionSort(run, kind, runLength + 1)

Min(a, b) == IF a < b THEN a ELSE b
\* Array.prototype.slice(0, n)
\* an array returned whole
sliceWhole(a, n) == a
\* Array.prototype.slice(0, n)
slice(a, n) == SubSeq(a, 1, Min(n, Len(a)))

(***************************************************************************)
(* The sources.  The wall clock starts at StartMs; the listings hold items *)
(* dated around the edges of the recency windows.                          *)
(***************************************************************************)
StartMs == 4 * DayMs
StartSec == StartMs \div 1000
\* one second, the step of the clock
TickMs == DayMs \div (24 * 60 * 60)
Delays == {0, TickMs}

basePost ==
  [permalink |-> 101, title |-> Str(<<"S","O","T","A">>), selftext |-> Str(<<>>),
   created_utc |-> Num(StartSec), score |-> Num(150), num_comments |-> Num(5),
   author |-> "a"]

RedditPool ==
  { basePost,
    \* the key phrase spans title and body; same engagement as basePost
    [basePost EXCEPT !.permalink = 102, !.title = Str(<<"n","e","w">>),
                     !.selftext = Str(<<"m","o","d","e","l">>),
                     !.score = Num(140), !.num_comments = Num(10)],
    [basePost EXCEPT !.permalink = 103, !.title = Str(<<"h","e","l","l","o">>)],
    [basePost EXCEPT !.permalink = 104, !.created_utc = Num(StartSec - 86400)],
    [basePost EXCEPT !.permalink = 105, !.created_utc = Num(StartSec - 86401)],
    [basePost EXCEPT !.permalink = 106, !.created_utc = Num(StartSec + 1)],
    [basePost EXCEPT !.permalink = 107, !.score = Num(40), !.num_comments = Num(40)],
    [basePost EXCEPT !.permalink = 108, !.score = Num(0), !.num_comments = Num(60)],
    [basePost EXCEPT !.permalink = 109, !.score = Undef, !.num_comments = Num(60)],
    [basePost EXCEPT !.permalink = 110, !.created_utc = Undef] }

\* isSignificantContent as the code computes it
significantText(title, content) ==
  LET text == toLowerCase(Concat3(title, content))
  IN \E i \in 1..Len(significantKeywords) :
       includes(text, toLowerCase(significantKeywords[i]))

\* the texts the listings hold, and the value of the significance test on each
PoolTexts == { << p.title, p.selftext >> : p \in RedditPool }
significantTable == [t \in PoolTexts |-> significantText(t[1], t[2])]

isSignificantContent(title, content) == significantTable[<< title, content >>]

bigPosts ==
  [i \in 1..BigLen |->
     [basePost EXCEPT !.permalink = i, !.score = Num(150 + ((i * 3) % 5) * 10)]]

baseEntry ==
  [link |-> 201, title |-> <<"p","a","p","e","r">>, summary |-> <<>>,
   published |-> DateStr(StartMs - 60000)]

ResearchPool ==
  { baseEntry,
    [baseEntry EXCEPT !.link = 202],
    [baseEntry EXCEPT !.link = 203, !.published = DateStr(StartMs - ThreeDaysMs)],
    [baseEntry EXCEPT !.link = 204, !.published = DateStr(StartMs - ThreeDaysMs - 1000)],
    [baseEntry EXCEPT !.link = 205, !.published = DateStr(StartMs + 1000)],
    [baseEntry EXCEPT !.link = 206, !.published = BadDateStr] }

bigEntries ==
  [i \in 1..BigLen |->
     [baseEntry EXCEPT !.link = i,
                       !.published = DateStr(StartMs - (1 + ((i * 3) % 5)) * 60000)]]

baseNews ==
  [link |-> 301, title |-> Str(<<"n","e","w","s">>), content |-> Str(<<"b","o","d","y">>),
   contentSnippet |-> UndefStr, pubDate |-> DateStr(StartMs - 60000)]

NewsPool ==
  { baseNews,
    [baseNews EXCEPT !.link = 302, !.content = UndefStr,
                     !.contentSnippet = Str(<<"s","n","i","p">>)],
    [baseNews EXCEPT !.link = 303, !.pubDate = DateStr(StartMs - DayMs)],
    [baseNews EXCEPT !.link = 304, !.pubDate = DateStr(StartMs - DayMs - 1000)],
    [baseNews EXCEPT !.link = 305, !.pubDate = DateStr(StartMs + 1000)],
    [baseNews EXCEPT !.link = 306, !.pubDate = NoDateStr],
    [baseNews EXCEPT !.link = 307, !.title = UndefStr] }

bigNews ==
  [i \in 1..BigLen |->
     [baseNews EXCEPT !.link = i,
                      !.pubDate = DateStr(StartMs - (1 + ((i * 3) % 5)) * 60000)]]

\* the listings of at most n items over a pool; a listing holds an item once
Listings(pool, n) ==
  UNION { { l \in [1..m -> pool] : \A i, j \in 1..m : i # j => l[i] # l[j] } : m \in 0..n }

(***************************************************************************)
(* Building and filtering the items                                        *)
(***************************************************************************)
\* engagement: data.score + (data.num_comments * 2)
engagement(data) == JsAdd(data.score, JsMul(data.num_comments, Num(2)))

\* a trending flag computed from the engagement
isTrendingByEngagement(data, subreddit) ==
  \/ JsGt(engagement(data), Num(subreddit.minScore))
  \/ JsGt(data.num_comments, Num(CommentsTrending))
\* is_trending: data.score > subreddit.minScore || data.num_comments > 50
isTrending(data, subreddit) ==
  \/ JsGt(data.score, Num(subreddit.minScore))
  \/ JsGt(data.num_comments, Num(CommentsTrending))

\* the callback of .map in scrapeReddit: the item, or the error it throws
mapPost(data, subreddit) ==
  LET iso == toISOString(DateOfNumber(JsMul(data.created_utc, Num(1000))))
  IN [threw |-> iso.threw,
      item |-> [title |-> data.title,
                content |-> data.selftext,
                link |-> << "https://reddit.com", data.permalink >>,
                source |-> << "Reddit - r/", subreddit.name >>,
                date |-> iso.v,
                score |-> data.score,
                comments |-> data.num_comments,
                author |-> data.author,
                subreddit |-> subreddit.name,
                category |-> subreddit.category,
                type |-> "reddit_post",
                engagement |-> engagement(data),
                is_trending |-> isTrending(data, subreddit),
                created_utc |-> data.created_utc]]

\* the callback of .filter in scrapeReddit, `clock` being the reading taken for this post
keepPost(post, clock) ==
  /\ isFromTodayUnix(post.created_utc, clock)
  /\ post.is_trending
  /\ isSignificantContent(post.title, post.content)

\* the item pushed for an arXiv entry
paperItem(entry) ==
  [title |-> entry.title,
   content |-> entry.summary,
   link |-> entry.link,
   source |-> "arXiv",
   date |-> entry.published,
   type |-> "research_paper",
   is_trending |-> TRUE]

\* item.content || item.contentSnippet || ''
contentOf(item) ==
  IF item.content.k = "obj" THEN item.content
  ELSE IF item.content.k = "str" /\ item.content.v # <<>> THEN item.content
  ELSE IF item.contentSnippet.k = "str" /\ item.contentSnippet.v # <<>> THEN item.contentSnippet
  ELSE Str(<<>>)

\* articles that are not marked as trending
mapArticleUnmarked(item, source) ==
  [threw |-> item.title.k # "str",
   item |-> [title |-> item.title,
             content |-> contentOf(item),
             link |-> item.link,
             source |-> source.name,
             date |-> item.pubDate,
             category |-> source.category,
             type |-> "news",
             is_trending |-> FALSE]]

\* the callback of .map in scrapeAINews: item.title.substring throws on a missing title
mapArticle(item, source) ==
  [threw |-> item.title.k # "str",
   item |-> [title |-> item.title,
             content |-> contentOf(item),
             link |-> item.link,
             source |-> source.name,
             date |-> item.pubDate,
             category |-> source.category,
             type |-> "news",
             is_trending |-> TRUE]]

\* the clock readings of a filter over n items: the clock steps by e before item k
Readings(n, clock, k, e) == [j \in 1..n |-> IF j < k THEN clock ELSE clock + e]

\* the elements of `items` whose index is in `keep`, in order
RECURSIVE Pick(_, _, _)
Pick(items, keep, j) ==
  IF j > Len(items) THEN <<>>
  ELSE (IF j \in keep THEN <<items[j]>> ELSE <<>>) \o Pick(items, keep, j + 1)

(***************************************************************************)
(* The per-origin catch blocks: what is left of `results`, and whether the *)
(* error leaves the block                                                  *)
(***************************************************************************)
\* a catch block that starts `results` afresh
catchSubredditAndReset(rs) == [results |-> <<>>, rethrow |-> FALSE]
\* a catch block that throws the error again
catchSubredditAndRethrow(rs) == [results |-> rs, rethrow |-> TRUE]
catchSubreddit(rs) == [results |-> rs, rethrow |-> FALSE]
catchCategory(rs) == [results |-> rs, rethrow |-> FALSE]
catchFeed(rs) == [results |-> rs, rethrow |-> FALSE]

\* a result object without the news key
allSourcesWithoutNews(r, p, n) == [reddit |-> r, research |-> p]
\* the object scrapeAllSources builds from the three fetchers' values
allSources(r, p, n) == [reddit |-> r, research |-> p, news |-> n]
\* an assembly that hands the items over in the opposite order
withTrendingFlagReversed(items) ==
  [i \in 1..Len(items) |-> [items[Len(items) + 1 - i] EXCEPT !.is_trending = (@ \/ FALSE)]]
\* results[key].map(item => ({...item, is_trending: item.is_trending || false}))
withTrendingFlag(items) ==
  [i \in 1..Len(items) |-> [items[i] EXCEPT !.is_trending = (@ \/ FALSE)]]
emptySources == [reddit |-> <<>>, research |-> <<>>, news |-> <<>>]

(***************************************************************************)
(* The recipients: emailLists, config and getActiveEmailList               *)
(***************************************************************************)
\* the groups of emailLists that are not commented out
emailLists ==
  [main |-> << "vishvaluke@gmail.com", "vsrinivasan@unomaha.edu", "vishvaluke@proton.me" >>]
config == [activeList |-> "main", includeRegisteredUsers |-> TRUE]

\* the properties every object inherits: emailLists[name] is a function for these names
inheritedKeys == {"constructor", "toString"}

\* [...new Set(a)]: the first occurrence of every element, in order
RECURSIVE uniqueOf(_, _)
uniqueOf(a, seen) ==
  IF a = <<>> THEN <<>>
  ELSE IF Head(a) \in seen THEN uniqueOf(Tail(a), seen)
  ELSE << Head(a) >> \o uniqueOf(Tail(a), seen \cup {Head(a)})

\* [...emailLists.main, ...emailLists.team, ...]: spreading a missing group is a TypeError
RECURSIVE spreadAll(_)
spreadAll(names) ==
  IF names = <<>> THEN [threw |-> FALSE, v |-> <<>>]
  ELSE IF Head(names) \notin DOMAIN emailLists THEN [threw |-> TRUE, v |-> <<>>]
  ELSE LET rest == spreadAll(Tail(names))
       IN [threw |-> rest.threw,
           v |-> IF rest.threw THEN <<>> ELSE emailLists[Head(names)] \o rest.v]

\* getActiveEmailList with config.activeList = activeList: the value returned, or the
\* error thrown; kind tells an array from another value
getActiveEmailList(activeList) ==
  IF activeList = "all"
    THEN LET allEmails == spreadAll(<< "main", "team", "vip", "test" >>)
         IN [threw |-> allEmails.threw, kind |-> "array",
             v |-> IF allEmails.threw THEN <<>> ELSE uniqueOf(allEmails.v, {})]
  ELSE IF activeList \in DOMAIN emailLists
    THEN [threw |-> FALSE, kind |-> "array", v |-> emailLists[activeList]]
  ELSE IF activeList \in inheritedKeys
    THEN [threw |-> FALSE, kind |-> "function", v |-> <<>>]
  ELSE [threw |-> FALSE, kind |-> "array", v |-> <<>>]

(***************************************************************************)
(* EmailService                                                            *)
(***************************************************************************)
maxRecipientsPerEmail == 50
DigestTextLength == 180

\* Array.prototype.slice(i, j), i and j counted from 0
sliceFrom(a, i, j) == SubSeq(a, i + 1, Min(j, Len(a)))

\* for (let i = 0; i < list.length; i += size) emailBatches.push(list.slice(i, i + size))
RECURSIVE batchesFrom(_, _, _)
batchesFrom(list, i, size) ==
  IF i < Len(list)
    THEN << sliceFrom(list, i, i + size) >> \o batchesFrom(list, i + size, size)
    ELSE <<>>

\* batches that leave out a last batch that is not full
emailBatchesWithoutRest(list) ==
  [k \in 1..(Len(list) \div maxRecipientsPerEmail) |->
     SubSeq(list, (k - 1) * maxRecipientsPerEmail + 1, k * maxRecipientsPerEmail)]
emailBatchesOf(list) == batchesFrom(list, 0, maxRecipientsPerEmail)

\* .replace(/<[^>]*>/g, '') and .replace(/&[^;]+;/g, ' '): every stretch from `open` to
\* the next `close` with at least `least` characters between them is replaced by `put`
RECURSIVE replaceBetween(_, _, _, _, _)
replaceBetween(s, open, close, least, put) ==
  LET ends == {i \in (2 + least)..Len(s) : s[i] = close}
      end == CHOOSE i \in ends : \A j \in ends : i <= j
  IN IF s = <<>> THEN <<>>
     ELSE IF Head(s) = open /\ ends # {} /\ (least = 0 \/ s[2] # close)
       THEN put \o replaceBetween(SubSeq(s, end + 1, Len(s)), open, close, least, put)
     ELSE << Head(s) >> \o replaceBetween(Tail(s), open, close, least, put)

\* .replace(/\s+/g, ' '): a stretch of blanks, tabs and line ends becomes one blank
RECURSIVE collapseSpaces(_)
collapseSpaces(s) ==
  IF s = <<>> THEN <<>>
  ELSE IF Head(s) \in {" ", "\n", "\t"}
    THEN IF Len(s) >= 2 /\ s[2] \in {" ", "\n", "\t"} THEN collapseSpaces(Tail(s))
         ELSE << " " >> \o collapseSpaces(Tail(s))
  ELSE << Head(s) >> \o collapseSpaces(Tail(s))

\* String.prototype.trim
trim(s) ==
  LET inked == {i \in 1..Len(s) : s[i] \notin {" ", "\n", "\t"}}
  IN IF inked = {} THEN <<>>
     ELSE SubSeq(s, CHOOSE i \in inked : \A j \in inked : i <= j,
                    CHOOSE i \in inked : \A j \in inked : i >= j)

readMore ==
  << "C","l","i","c","k"," ","t","o"," ","r","e","a","d"," ","t","h","e"," ","f","u","l","l",
     " ","a","r","t","i","c","l","e"," ","f","o","r"," ","m","o","r","e"," ","d","e","t","a",
     "i","l","s","." >>

\* truncateContent: the text shown for an item, or the TypeError of .trim on a value
\* that is no string
truncateContent(content, maxLength) ==
  IF content.k = "undef" \/ (content.k = "str" /\ content.v = <<>>)
    THEN [threw |-> FALSE, v |-> readMore]
  ELSE IF content.k # "str" THEN [threw |-> TRUE, v |-> <<>>]
  ELSE IF trim(content.v) = <<>> THEN [threw |-> FALSE, v |-> readMore]
  ELSE LET withoutTags == replaceBetween(content.v, "<", ">", 0, <<>>)
           withoutEntities == replaceBetween(withoutTags, "&", ";", 1, << " " >>)
           cleanContent == trim(collapseSpaces(withoutEntities))
       IN [threw |-> FALSE,
           v |-> IF cleanContent = <<>> THEN readMore
                 ELSE IF Len(cleanContent) > maxLength
                   THEN SubSeq(cleanContent, 1, maxLength) \o << ".", ".", "." >>
                 ELSE cleanContent]

\* one card of the digest: the item's link, title and text (a paper's summary is a
\* plain string), or the error of truncateContent
cardOf(item) ==
  LET text == truncateContent(IF item.type = "research_paper" THEN Str(item.content)
                                                              ELSE item.content,
                              DigestTextLength)
  IN [threw |-> text.threw, card |-> [link |-> item.link, title |-> item.title, text |-> text.v]]

\* formatDigestEmail: the three sections of the page in the order they are written,
\* or the error of an item that cannot be rendered
formatDigestEmail(content) ==
  LET section(items) == [i \in 1..Len(items) |-> cardOf(items[i]).card]
      bad(items) == \E i \in 1..Len(items) : cardOf(items[i]).threw
  IN IF bad(content.research) \/ bad(content.news) \/ bad(content.reddit)
       THEN [threw |-> TRUE, v |-> <<>>]
       ELSE [threw |-> FALSE,
             v |-> << [section |-> "research", cards |-> section(content.research)],
                      [section |-> "news", cards |-> section(content.news)],
                      [section |-> "reddit", cards |-> section(content.reddit)] >>]

(***************************************************************************)
(* State                                                                   *)
(***************************************************************************)
VARIABLES
  now,        \* the wall clock, the value a call of new Date() reads
  pc,         \* where scrapeAllSources stands: idle, reddit, research, news, merge, done,
              \* or waiting at an await that never settles
  idx,        \* the origin the running fetcher's loop is at
  results,    \* the running fetcher's `results` array
  today,      \* scrapeResearchPapers' `today`
  out,        \* the values the three fetchers returned
  returned,   \* the value scrapeAllSources returned
  raisedBy,   \* the functions that raised to their caller
  log,        \* history: what each origin answered, the items built from it and the clock
              \* reading each item was tested at
  began,      \* history: the clock reading at the start of each fetcher
  fetched,    \* history: each fetcher's `results` before sort and slice
  itemsLeft,  \* items the origins may still hand out
  failsLeft,  \* requests that may still fail
  entry,      \* the function that was called: scrapeAllSources, or one fetcher on its own
  ctl,        \* where the controller's sendDailyDigest stands
  activeList, \* config.activeList
  emailList,  \* the controller's `emailList`, or the list an EmailService function was given
  registeredUsers, \* the controller's `registeredUsers`
  call,       \* the EmailService function that is running, its batches and its `results`
  attempts,   \* history: the calls of resend.emails.send and how each ended
  reports,    \* history: how each call of an EmailService function ended
  pure,       \* a call of a function without state: its argument and the values it returned
  par         \* the three fetchers run in an order of their own over a fixed snapshot

scrapeVars == << now, pc, idx, results, today, out, returned, raisedBy, log, began,
                 fetched, itemsLeft, failsLeft, entry >>
mailVars == << ctl, activeList, emailList, registeredUsers, call, attempts, reports >>
vars == << scrapeVars, mailVars, pure, par >>

MaxNow == StartMs + MaxDrift * TickMs

\* the functions that run the three fetchers in a row
Pipelines == {"scrapeAllSources", "sendDailyDigest"}

\* no EmailService function is running
noCall ==
  [fn |-> "none", to |-> <<>>, content |-> <<>>, html |-> <<>>, emailBatches |-> <<>>,
   at |-> 1, results |-> <<>>]

\* the state before a call of function e of ScraperService
ScrapeInit(e) ==
  /\ now = StartMs
  /\ entry = e
  /\ pc = IF entry \in Pipelines THEN "idle"
          ELSE IF entry \in {"reddit", "research", "news"} THEN entry ELSE "off"
  /\ idx = 1
  /\ results = <<>>
  /\ today = StartMs
  /\ out = emptySources
  /\ returned = <<>>
  /\ raisedBy = {}
  /\ log = <<>>
  /\ began = [f \in {"reddit", "research", "news"} |-> IF entry = f THEN StartMs ELSE 0]
  /\ fetched = emptySources
  /\ itemsLeft = IF entry \in {"reddit", "research", "news"} THEN MaxItems ELSE 0
  /\ failsLeft = MaxFailures

Init ==
  /\ \E e \in {"scrapeAllSources", "reddit", "research", "news"} : ScrapeInit(e)
  /\ ctl = "none"
  /\ activeList = config.activeList
  /\ emailList = <<>>
  /\ registeredUsers = <<>>
  /\ call = noCall
  /\ attempts = <<>>
  /\ reports = <<>>
  /\ pure = [fn |-> "none"]
  /\ par = [on |-> FALSE]

\* what origin i of the n origins of a fetcher may answer: an empty listing or, from
\* the last two origins, a failure, a listing over the pool or (the last origin) one
\* of the listings `big`.  The failure "silent" is an origin that takes the request and never
\* answers it: axios.get is called without a timeout and its promise never settles
\* (parser.parseURL rejects by itself, which is the failure "reject")
Answers(i, n, pool, big, failures) ==
  LET empty == { [kind |-> "ok", items |-> <<>>, big |-> 0] }
      theBig == IF i = n THEN { [kind |-> "ok", items |-> b, big |-> 1] : b \in big } ELSE {}
  IN IF i \in {n - 1, n}
       THEN { [kind |-> k, items |-> <<>>, big |-> 0] :
                k \in (IF failsLeft > 0 THEN failures ELSE {}) }
            \cup { [kind |-> "ok", items |-> l, big |-> 0] : l \in Listings(pool, itemsLeft) }
            \cup theBig
       ELSE empty

\* the budgets after an answer
Spend(a) ==
  /\ itemsLeft' = IF a.big = 1 THEN itemsLeft ELSE itemsLeft - Len(a.items)
  /\ failsLeft' = IF a.kind = "ok" THEN failsLeft ELSE failsLeft - 1
  /\ entry' = entry

\* the time a request may take: an empty listing comes back within the same clock reading
Waits(a) == IF a.kind = "ok" /\ Len(a.items) = 0 THEN {0} ELSE Delays

\* the clock steps a filter over the answer's items may see
Steps(a) ==
  IF a.kind # "ok" \/ a.big = 1 \/ Len(a.items) = 0
    THEN { [k |-> 1, e |-> 0] }
    ELSE { [k |-> 1, e |-> 0] } \cup { [k |-> k, e |-> TickMs] : k \in 1..Len(a.items) }

\* scrapeAllSources' catch: close the browser, return the empty result
Abort(who) ==
  /\ raisedBy' = raisedBy \cup {who}
  /\ returned' = emptySources
  /\ pc' = "done"
  /\ UNCHANGED << idx, results, today, out, began, fetched >>

Start ==
  /\ UNCHANGED << mailVars, pure, par >>
  /\ pc = "idle"
  /\ pc' = "reddit"
  /\ idx' = 1
  /\ results' = <<>>
  /\ began' = [began EXCEPT !.reddit = now]
  /\ UNCHANGED << now, today, out, returned, raisedBy, log, fetched,
                  itemsLeft, failsLeft, entry >>

\* one iteration of the loop over subreddits
RedditOrigin ==
  /\ UNCHANGED << mailVars, pure, par >>
  /\ pc = "reddit"
  /\ idx <= Len(subreddits)
  /\ \E a \in Answers(idx, Len(subreddits), RedditPool, {bigPosts},
                       {"reject", "malformed", "silent"}) :
     \E d \in Waits(a), s \in Steps(a) :
       LET subreddit == subreddits[idx]
           clock == now + d
           n == Len(a.items)
           mapped == [j \in 1..n |-> mapPost(a.items[j], subreddit)]
           threw == a.kind # "ok" \/ \E j \in 1..n : mapped[j].threw
           seen == Readings(n, clock, s.k, s.e)
           keep == { j \in 1..n : keepPost(mapped[j].item, seen[j]) }
           posts == Pick([j \in 1..n |-> mapped[j].item], keep, 1)
           caught == catchSubreddit(results)
       IN /\ now' = IF threw THEN clock ELSE clock + s.e
          /\ now' <= MaxNow
          /\ threw => s.e = 0
          /\ Spend(a)
          /\ log' = IF a.kind = "ok" /\ n = 0 THEN log
                    ELSE Append(log, [fetcher |-> "reddit", origin |-> idx,
                                      kind |-> IF a.kind # "ok" THEN a.kind
                                               ELSE IF threw THEN "threw" ELSE "ok",
                                      at |-> clock,
                                      raw |-> a.items,
                                      made |-> IF threw THEN <<>>
                                               ELSE [j \in 1..n |-> mapped[j].item],
                                      seen |-> IF threw THEN <<>> ELSE seen])
          /\ IF a.kind = "silent"
               THEN /\ pc' = "waiting"
                    /\ UNCHANGED << idx, results, today, out, returned, raisedBy, began,
                                    fetched >>
             ELSE IF threw /\ caught.rethrow
               THEN Abort("scrapeReddit")
               ELSE /\ results' = IF threw THEN caught.results ELSE results \o posts
                    /\ idx' = idx + 1
                    /\ UNCHANGED << pc, today, out, returned, raisedBy, began, fetched >>

RedditReturn ==
  /\ UNCHANGED << mailVars, pure, par >>
  /\ pc = "reddit"
  /\ idx > Len(subreddits)
  /\ out' = [out EXCEPT !.reddit = slice(ArraySort(results, "engagement"), RedditCap)]
  /\ fetched' = [fetched EXCEPT !.reddit = results]
  /\ IF entry \in Pipelines
       THEN /\ pc' = "research"
            /\ today' = now
            /\ began' = [began EXCEPT !.research = now]
       ELSE /\ pc' = "done"
            /\ UNCHANGED << today, began >>
  /\ idx' = 1
  /\ results' = <<>>
  /\ UNCHANGED << now, returned, raisedBy, log, itemsLeft, failsLeft, entry >>

\* scrapeResearchPapers' outer catch: the fetcher returns the empty array
ResearchFails ==
  /\ out' = [out EXCEPT !.research = <<>>]
  /\ fetched' = [fetched EXCEPT !.research = results]
  /\ pc' = IF entry \in Pipelines THEN "news" ELSE "done"
  /\ idx' = 1
  /\ results' = <<>>
  /\ began' = IF entry \in Pipelines THEN [began EXCEPT !.news = now'] ELSE began
  /\ UNCHANGED << today, returned, raisedBy >>

\* one iteration of the loop over arXiv categories
ResearchCategory ==
  /\ UNCHANGED << mailVars, pure, par >>
  /\ pc = "research"
  /\ idx <= Len(categories)
  /\ \E a \in Answers(idx, Len(categories), ResearchPool, {bigEntries},
                       {"reject", "silent"}) :
     \E d \in Waits(a) :
       LET n == Len(a.items)
           threw == a.kind # "ok"
           seen == [j \in 1..n |-> today]
           keep == { j \in 1..n : isRecent(a.items[j].published, today) }
           papers == Pick([j \in 1..n |-> paperItem(a.items[j])], keep, 1)
           caught == catchCategory(results)
       IN /\ now' = now + d
          /\ now' <= MaxNow
          /\ Spend(a)
          /\ log' = IF a.kind = "ok" /\ n = 0 THEN log
                    ELSE Append(log, [fetcher |-> "research", origin |-> idx,
                                      kind |-> a.kind,
                                      at |-> now + d,
                                      raw |-> a.items,
                                      made |-> [j \in 1..n |-> paperItem(a.items[j])],
                                      seen |-> IF threw THEN <<>> ELSE seen])
          /\ IF a.kind = "silent"
               THEN /\ pc' = "waiting"
                    /\ UNCHANGED << idx, results, today, out, returned, raisedBy, began,
                                    fetched >>
             ELSE IF threw /\ caught.rethrow
               THEN ResearchFails
               ELSE /\ results' = IF threw THEN caught.results ELSE results \o papers
                    /\ idx' = idx + 1
                    /\ UNCHANGED << pc, today, out, returned, raisedBy, began, fetched >>

ResearchReturn ==
  /\ UNCHANGED << mailVars, pure, par >>
  /\ pc = "research"
  /\ idx > Len(categories)
  /\ out' = [out EXCEPT !.research = slice(ArraySort(results, "date"), ResearchCap)]
  /\ fetched' = [fetched EXCEPT !.research = results]
  /\ pc' = IF entry \in Pipelines THEN "news" ELSE "done"
  /\ idx' = 1
  /\ results' = <<>>
  /\ began' = IF entry \in Pipelines THEN [began EXCEPT !.news = now] ELSE began
  /\ UNCHANGED << now, today, returned, raisedBy, log, itemsLeft, failsLeft, entry >>

\* scrapeAINews' outer catch: the fetcher returns the empty array
NewsFails ==
  /\ out' = [out EXCEPT !.news = <<>>]
  /\ fetched' = [fetched EXCEPT !.news = results]
  /\ pc' = IF entry \in Pipelines THEN "merge" ELSE "done"
  /\ idx' = 1
  /\ results' = <<>>
  /\ UNCHANGED << today, returned, raisedBy, began >>

\* one iteration of the loop over news feeds
NewsFeed ==
  /\ UNCHANGED << mailVars, pure, par >>
  /\ pc = "news"
  /\ idx <= Len(newsSources)
  \* the last feed may also list an entry whose content is an object, not a string
  /\ \E a \in Answers(idx, Len(newsSources), NewsPool,
                       {bigNews,
                        << [baseNews EXCEPT !.link = 308,
                                            !.content = [k |-> "obj", v |-> <<>>]] >>},
                       {"reject"}) :
     \E d \in Waits(a), s \in Steps(a) :
       LET source == newsSources[idx]
           clock == now + d
           n == Len(a.items)
           mapped == [j \in 1..n |-> mapArticle(a.items[j], source)]
           threw == a.kind # "ok" \/ \E j \in 1..n : mapped[j].threw
           seen == Readings(n, clock, s.k, s.e)
           keep == { j \in 1..n : isFromToday(mapped[j].item.date, seen[j]) }
           articles == Pick([j \in 1..n |-> mapped[j].item], keep, 1)
           caught == catchFeed(results)
       IN /\ now' = IF threw THEN clock ELSE clock + s.e
          /\ now' <= MaxNow
          /\ threw => s.e = 0
          /\ Spend(a)
          /\ log' = IF a.kind = "ok" /\ n = 0 THEN log
                    ELSE Append(log, [fetcher |-> "news", origin |-> idx,
                                      kind |-> IF a.kind # "ok" THEN a.kind
                                               ELSE IF threw THEN "threw" ELSE "ok",
                                      at |-> clock,
                                      raw |-> a.items,
                                      made |-> IF threw THEN <<>>
                                               ELSE [j \in 1..n |-> mapped[j].item],
                                      seen |-> IF threw THEN <<>> ELSE seen])
          /\ IF threw /\ caught.rethrow
               THEN NewsFails
               ELSE /\ results' = IF threw THEN caught.results ELSE results \o articles
                    /\ idx' = idx + 1
                    /\ UNCHANGED << pc, today, out, returned, raisedBy, began, fetched >>

NewsReturn ==
  /\ UNCHANGED << mailVars, pure, par >>
  /\ pc = "news"
  /\ idx > Len(newsSources)
  /\ out' = [out EXCEPT !.news = slice(ArraySort(results, "date"), NewsCap)]
  /\ fetched' = [fetched EXCEPT !.news = results]
  /\ pc' = IF entry \in Pipelines THEN "merge" ELSE "done"
  /\ idx' = 1
  /\ results' = <<>>
  /\ UNCHANGED << now, today, returned, raisedBy, log, began, itemsLeft, failsLeft, entry >>

\* the rest of scrapeAllSources: flag every item, close the browser, return
Finish ==
  /\ UNCHANGED << mailVars, pure, par >>
  /\ pc = "merge"
  /\ LET sources == allSources(out.reddit, out.research, out.news)
     IN returned' = [key \in DOMAIN sources |-> withTrendingFlag(sources[key])]
  /\ pc' = "done"
  /\ UNCHANGED << now, idx, results, today, out, raisedBy, log, began, fetched,
                  itemsLeft, failsLeft, entry >>

Next ==
  \/ Start
  \/ RedditOrigin
  \/ RedditReturn
  \/ ResearchCategory
  \/ ResearchReturn
  \/ NewsFeed
  \/ NewsReturn
  \/ Finish

Spec == Init /\ [][Next]_vars

\* The same program under the scheduling of the event loop: a step that can be taken
\* is taken (the continuation of an await runs once its promise has settled).  For the
\* three returns the condition under which each can be taken is written out.
FetchLive ==
  /\ Init /\ [][Next]_vars
  /\ WF_vars(Start) /\ WF_vars(RedditOrigin) /\ WF_vars(ResearchCategory)
  /\ WF_vars(NewsFeed) /\ WF_vars(Finish)
  /\ (<>[](pc = "reddit" /\ idx > Len(subreddits)) => []<><<RedditReturn>>_vars)
  /\ (<>[](pc = "research" /\ idx > Len(categories)) => []<><<ResearchReturn>>_vars)
  /\ (<>[](pc = "news" /\ idx > Len(newsSources)) => []<><<NewsReturn>>_vars)

(***************************************************************************)
(* EmailService.sendToEmailList and sendBulkDailyDigest, and the           *)
(* controller's sendDailyDigest that calls them                            *)
(***************************************************************************)
\* number of addresses in the longest list an EmailService function is given directly
MaxRecipients == 120
\* number of registered users User.findAll may find
MaxUsers == 2

\* n addresses, and n registered users with these addresses
Addresses(n) == [i \in 1..n |-> "user" \o ToString(i) \o "@example.com"]
Users(n) == [i \in 1..n |-> [email |-> Addresses(n)[i]]]

\* the digests a function is given directly: the empty one, and one with an item of
\* every kind
Digests ==
  { emptySources,
    [reddit |-> withTrendingFlag(<< mapPost(basePost, subreddits[1]).item >>),
     research |-> withTrendingFlag(<< paperItem(baseEntry) >>),
     news |-> withTrendingFlag(<< mapArticle(baseNews, newsSources[1]).item >>)] }

\* users.map(user => user.email)
emailAddresses(users) == [i \in 1..Len(users) |-> users[i].email]

\* sendToEmailList up to its loop over the batches: the page, the check of the list,
\* the batches
beginSendToEmailList(list, content) ==
  LET htmlContent == formatDigestEmail(content)
  IN IF htmlContent.threw \/ Len(list) = 0
       THEN [threw |-> TRUE, call |-> noCall]
       ELSE [threw |-> FALSE,
             call |-> [fn |-> "sendToEmailList", to |-> list, content |-> content,
                       html |-> htmlContent.v, emailBatches |-> emailBatchesOf(list),
                       at |-> 1, results |-> <<>>]]

\* sendBulkDailyDigest up to its loop over the batches
beginSendBulkDailyDigest(users, content) ==
  LET htmlContent == formatDigestEmail(content)
  IN IF htmlContent.threw
       THEN [threw |-> TRUE, call |-> noCall]
       ELSE [threw |-> FALSE,
             call |-> [fn |-> "sendBulkDailyDigest", to |-> emailAddresses(users),
                       content |-> content, html |-> htmlContent.v,
                       emailBatches |-> emailBatchesOf(emailAddresses(users)),
                       at |-> 1, results |-> <<>>]]

\* how a call of a function ended: what it was given, whether it raised, its value
report(fn, to, content, raised, value) ==
  [fn |-> fn, to |-> to, content |-> content, raised |-> raised, value |-> value]

\* a loop over the users that the first failing call ends
fallbackReportsUntilFailure(users, content) ==
  IF users = <<>> THEN <<>>
  ELSE << report("sendDailyDigest", << users[1].email >>, content, TRUE, <<>>) >>

\* EmailService.sendDailyDigest(user, content) for each user in a row: with the page
\* failing to render every call raises before it sends
fallbackReports(users, content) ==
  [i \in 1..Len(users) |->
     report("sendDailyDigest", << users[i].email >>, content, TRUE, <<>>)]

\* an outer catch that hands the error on to the caller
catchDigestAndRethrow == [rethrow |-> TRUE]
\* the catch of sendDailyDigest's outer try: the error is logged
catchDigest == [rethrow |-> FALSE]

\* lookups in which a rejection of User.findAll is caught on the spot and leaves no
\* registered users
LookupOrNoUsers ==
  /\ ctl = "scrape"
  /\ pc = "done"
  /\ LET list == getActiveEmailList(activeList)
         caught == raisedBy \cup (IF catchDigest.rethrow THEN {"sendDailyDigest"} ELSE {})
     IN IF list.threw
          THEN /\ ctl' = "end"
               /\ raisedBy' = caught
               /\ reports' = Append(reports,
                                    report("getActiveEmailList", <<>>, <<>>, TRUE, <<>>))
               /\ UNCHANGED << emailList, registeredUsers >>
          ELSE /\ emailList' = list.v
               /\ IF config.includeRegisteredUsers
                    THEN \/ /\ ctl' = "list"
                            /\ raisedBy' = raisedBy
                            /\ reports' = Append(reports,
                                                 report("User.findAll", <<>>, <<>>, TRUE, <<>>))
                            /\ UNCHANGED registeredUsers
                         \/ \E n \in 0..MaxUsers :
                              /\ registeredUsers' = Users(n)
                              /\ ctl' = "list"
                              /\ UNCHANGED << reports, raisedBy >>
                    ELSE /\ ctl' = "list"
                         /\ UNCHANGED << registeredUsers, reports, raisedBy >>
  /\ UNCHANGED << now, pc, idx, results, today, out, returned, log, began, fetched,
                  itemsLeft, failsLeft, entry, activeList, call, attempts, pure, par >>

\* sendDailyDigest, lines 30 to 40: getActiveEmailList, then User.findAll, which finds
\* some users or rejects; an error of either goes to the outer catch
Lookup ==
  /\ ctl = "scrape"
  /\ pc = "done"
  /\ LET list == getActiveEmailList(activeList)
         caught == raisedBy \cup (IF catchDigest.rethrow THEN {"sendDailyDigest"} ELSE {})
     IN IF list.threw
          THEN /\ ctl' = "end"
               /\ raisedBy' = caught
               /\ reports' = Append(reports,
                                    report("getActiveEmailList", <<>>, <<>>, TRUE, <<>>))
               /\ UNCHANGED << emailList, registeredUsers >>
          ELSE /\ emailList' = list.v
               /\ IF config.includeRegisteredUsers
                    THEN \/ /\ ctl' = "end"
                            /\ raisedBy' = caught
                            /\ reports' = Append(reports,
                                                 report("User.findAll", <<>>, <<>>, TRUE, <<>>))
                            /\ UNCHANGED registeredUsers
                         \/ \E n \in 0..MaxUsers :
                              /\ registeredUsers' = Users(n)
                              /\ ctl' = "list"
                              /\ UNCHANGED << reports, raisedBy >>
                    ELSE /\ ctl' = "list"
                         /\ UNCHANGED << registeredUsers, reports, raisedBy >>
  /\ UNCHANGED << now, pc, idx, results, today, out, returned, log, began, fetched,
                  itemsLeft, failsLeft, entry, activeList, call, attempts, pure, par >>

\* a send to the configured list whose failure or omission ends the run
ListSendOrEnd ==
  /\ ctl = "list"
  /\ IF Len(emailList) > 0
       THEN LET begun == beginSendToEmailList(emailList, returned)
            IN IF begun.threw
                 THEN /\ ctl' = "end"
                      /\ reports' = Append(reports,
                                           report("sendToEmailList", emailList, returned,
                                                  TRUE, <<>>))
                      /\ UNCHANGED call
                 ELSE /\ ctl' = "listing"
                      /\ call' = begun.call
                      /\ UNCHANGED reports
       ELSE /\ ctl' = "end"
            /\ UNCHANGED << call, reports >>
  /\ UNCHANGED << scrapeVars, activeList, emailList, registeredUsers, attempts, pure, par >>

\* sendDailyDigest, lines 43 to 52: the send to the configured list
ListSend ==
  /\ ctl = "list"
  /\ IF Len(emailList) > 0
       THEN LET begun == beginSendToEmailList(emailList, returned)
            IN IF begun.threw
                 THEN /\ ctl' = "users"
                      /\ reports' = Append(reports,
                                           report("sendToEmailList", emailList, returned,
                                                  TRUE, <<>>))
                      /\ UNCHANGED call
                 ELSE /\ ctl' = "listing"
                      /\ call' = begun.call
                      /\ UNCHANGED reports
       ELSE /\ ctl' = "users"
            /\ UNCHANGED << call, reports >>
  /\ UNCHANGED << scrapeVars, activeList, emailList, registeredUsers, attempts, pure, par >>

\* sendDailyDigest, lines 55 to 72: the send to the registered users and, when it
\* raises, the send to every user on their own
UsersSend ==
  /\ ctl = "users"
  /\ IF config.includeRegisteredUsers /\ Len(registeredUsers) > 0
       THEN LET begun == beginSendBulkDailyDigest(registeredUsers, returned)
            IN IF begun.threw
                 THEN /\ ctl' = "end"
                      /\ reports' = Append(reports,
                                           report("sendBulkDailyDigest",
                                                  emailAddresses(registeredUsers),
                                                  returned, TRUE, <<>>))
                                    \o fallbackReports(registeredUsers, returned)
                      /\ UNCHANGED call
                 ELSE /\ ctl' = "bulking"
                      /\ call' = begun.call
                      /\ UNCHANGED reports
       ELSE /\ ctl' = "end"
            /\ UNCHANGED << call, reports >>
  /\ UNCHANGED << scrapeVars, activeList, emailList, registeredUsers, attempts, pure, par >>

\* a call of sendToEmailList from outside the controller, as scripts/test-email-list.js
\* makes it
CallSendToEmailList ==
  /\ ctl = "direct"
  /\ entry = "sendToEmailList"
  /\ call = noCall
  /\ reports = <<>>
  /\ \E n \in 0..MaxRecipients, content \in Digests :
       LET begun == beginSendToEmailList(Addresses(n), content)
       IN /\ emailList' = Addresses(n)
          /\ IF begun.threw
               THEN /\ ctl' = "end"
                    /\ reports' = Append(reports,
                                         report("sendToEmailList", Addresses(n), content,
                                                TRUE, <<>>))
                    /\ UNCHANGED call
               ELSE /\ call' = begun.call
                    /\ UNCHANGED << ctl, reports >>
  /\ UNCHANGED << scrapeVars, activeList, registeredUsers, attempts, pure, par >>

\* a call of sendBulkDailyDigest from outside the controller
CallSendBulkDailyDigest ==
  /\ ctl = "direct"
  /\ entry = "sendBulkDailyDigest"
  /\ call = noCall
  /\ reports = <<>>
  /\ \E n \in 0..MaxRecipients, content \in Digests :
       LET begun == beginSendBulkDailyDigest(Users(n), content)
       IN /\ registeredUsers' = Users(n)
          /\ call' = begun.call
  /\ UNCHANGED << scrapeVars, ctl, activeList, emailList, attempts, reports, pure, par >>

\* a loop over n batches that ends at the first send that fails
nextBatchUntilFailure(at, outcome, n) == IF outcome = "sent" THEN at + 1 ELSE n + 1
\* for (const batch of emailBatches) with its try and catch inside the loop: the batch
\* after the one at position `at`, whatever the outcome of the send
nextBatch(at, outcome, n) == at + 1

\* one iteration of the loop over emailBatches: sendEmail, whose call of
\* resend.emails.send answers data or an error, or rejects; its data pushed to `results`,
\* its error caught and logged
SendBatch ==
  /\ call.fn \in {"sendToEmailList", "sendBulkDailyDigest"}
  /\ call.at <= Len(call.emailBatches)
  /\ \E outcome \in {"sent", "error", "rejected"} :
       /\ attempts' = Append(attempts,
                             [fn |-> call.fn, to |-> call.emailBatches[call.at],
                              subject |-> "AI Intelligence Brief", html |-> call.html,
                              outcome |-> outcome])
       /\ call' = [call EXCEPT !.at = nextBatch(@, outcome, Len(call.emailBatches)),
                               !.results = IF outcome = "sent"
                                             THEN Append(@, [id |-> Len(attempts) + 1])
                                             ELSE @]
  /\ UNCHANGED << scrapeVars, ctl, activeList, emailList, registeredUsers, reports, pure, par >>

\* return results
ReturnResults ==
  /\ call.fn \in {"sendToEmailList", "sendBulkDailyDigest"}
  /\ call.at > Len(call.emailBatches)
  /\ reports' = Append(reports, report(call.fn, call.to, call.content, FALSE, call.results))
  /\ call' = noCall
  /\ ctl' = IF ctl = "listing" THEN "users" ELSE "end"
  /\ UNCHANGED << scrapeVars, activeList, emailList, registeredUsers, attempts, pure, par >>

\* router.post('/daily') after its await of sendDailyDigest: the answer to the request
PostDaily ==
  /\ entry = "sendDailyDigest"
  /\ ctl = "end"
  /\ ctl' = "answered"
  /\ reports' = Append(reports,
                       report("POST /api/cron/daily", <<>>, <<>>, FALSE,
                              IF "sendDailyDigest" \in raisedBy
                                THEN [status |-> 500, success |-> FALSE]
                                ELSE [status |-> 200, success |-> TRUE]))
  /\ UNCHANGED << scrapeVars, activeList, emailList, registeredUsers, call, attempts,
                  pure, par >>

\* sendDailyDigest before its first statement, config.activeList naming the list of the
\* source, a group that is commented out, or all groups; or a batch sender before a
\* direct call
DigestInit ==
  /\ \E e \in {"sendDailyDigest", "sendToEmailList", "sendBulkDailyDigest"} : ScrapeInit(e)
  /\ ctl = IF entry = "sendDailyDigest" THEN "scrape" ELSE "direct"
  /\ activeList \in IF entry = "sendDailyDigest" THEN {"main", "team", "all"}
                                                   ELSE {config.activeList}
  /\ emailList = <<>>
  /\ registeredUsers = <<>>
  /\ call = noCall
  /\ attempts = <<>>
  /\ reports = <<>>
  /\ pure = [fn |-> "none"]
  /\ par = [on |-> FALSE]

DigestNext ==
  \/ Start
  \/ RedditOrigin
  \/ RedditReturn
  \/ ResearchCategory
  \/ ResearchReturn
  \/ NewsFeed
  \/ NewsReturn
  \/ Finish
  \/ Lookup
  \/ ListSend
  \/ UsersSend
  \/ CallSendToEmailList
  \/ CallSendBulkDailyDigest
  \/ SendBatch
  \/ ReturnResults
  \/ PostDaily

DigestSpec == DigestInit /\ [][DigestNext]_vars

(***************************************************************************)
(* Functions without state, called on their own: extractTags and           *)
(* getActiveEmailList                                                      *)
(***************************************************************************)
commonTags ==
  << <<"A","I">>,
     <<"M","L">>,
     <<"D","e","e","p"," ","L","e","a","r","n","i","n","g">>,
     <<"N","e","u","r","a","l"," ","N","e","t","w","o","r","k","s">>,
     <<"L","L","M">>,
     <<"G","P","T">>,
     <<"C","h","a","t","G","P","T">>,
     <<"C","o","m","p","u","t","e","r"," ","V","i","s","i","o","n">>,
     <<"N","L","P">>,
     <<"R","o","b","o","t","i","c","s">>,
     <<"A","G","I">>,
     <<"E","t","h","i","c","s">>,
     <<"R","e","s","e","a","r","c","h">>,
     <<"S","t","a","r","t","u","p">>,
     <<"I","n","d","u","s","t","r","y">>,
     <<"D","e","v","e","l","o","p","m","e","n","t">>,
     <<"A","p","p","l","i","c","a","t","i","o","n","s">>,
     <<"F","r","a","m","e","w","o","r","k">>,
     <<"O","p","e","n"," ","S","o","u","r","c","e">>,
     <<"C","o","m","m","e","r","c","i","a","l">>,
     <<"A","c","a","d","e","m","i","c">>,
     <<"T","u","t","o","r","i","a","l">>,
     <<"N","e","w","s">> >>

\* tags found in the text as it is written, upper and lower case apart
extractTagsCaseSensitive(text) ==
  uniqueOf(SelectSeq(commonTags, LAMBDA tag : includes(text, tag)), {})

\* extractTags: the tags added to the Set `tags`, in the order they were added
extractTags(text) ==
  LET lowerText == toLowerCase(text)
  IN uniqueOf(SelectSeq(commonTags, LAMBDA tag : includes(lowerText, toLowerCase(tag))), {})

\* number of times a function is called with the same argument
MaxCalls == 2

\* the texts extractTags is given: no, one or two of a few words
TagTexts ==
  LET TagWords ==
        { <<"s","a","i","d">>,
          <<"r","e","l","e","a","s","e","d">>,
          <<"C","h","a","t","G","P","T">>,
          <<"n","e","w","s">>,
          <<"O","P","E","N"," ","s","o","u","r","c","e">>,
          <<"h","t","m","l">> }
  IN {<<>>} \cup TagWords \cup {a \o << " " >> \o b : a \in TagWords, b \in TagWords}

PureInit ==
  /\ \E e \in {"extractTags", "getActiveEmailList"} : ScrapeInit(e)
  /\ ctl = "none"
  /\ activeList \in IF entry = "getActiveEmailList"
                      THEN {"main", "team", "vip", "test", "all"} \cup inheritedKeys
                      ELSE {config.activeList}
  /\ emailList = <<>>
  /\ registeredUsers = <<>>
  /\ call = noCall
  /\ attempts = <<>>
  /\ reports = <<>>
  /\ pure \in IF entry = "extractTags"
                THEN {[fn |-> entry, text |-> t, values |-> <<>>] : t \in TagTexts}
                ELSE {[fn |-> entry, text |-> <<>>, values |-> <<>>]}
  /\ par = [on |-> FALSE]

CallExtractTags ==
  /\ pure.fn = "extractTags"
  /\ Len(pure.values) < MaxCalls
  /\ pure' = [pure EXCEPT !.values = Append(@, extractTags(pure.text))]
  /\ UNCHANGED << scrapeVars, mailVars, par >>

CallGetActiveEmailList ==
  /\ pure.fn = "getActiveEmailList"
  /\ Len(pure.values) < MaxCalls
  /\ pure' = [pure EXCEPT !.values = Append(@, getActiveEmailList(activeList))]
  /\ UNCHANGED << scrapeVars, mailVars, par >>

PureNext ==
  \/ CallExtractTags
  \/ CallGetActiveEmailList

PureSpec == PureInit /\ [][PureNext]_vars

(***************************************************************************)
(* The three fetchers in an order of their own.  scrapeAllSources awaits   *)
(* them one after the other; here each fetcher is a task with its own      *)
(* `results`, the tasks take their steps in any order, and the sources     *)
(* answer from a snapshot fixed before the run: the last origin of every   *)
(* fetcher lists at most one item, the other origins none.  Time passes    *)
(* while a fetcher waits for its origins.                                  *)
(***************************************************************************)
\* every fetcher writes the key of another fetcher
keyOfShared(f) == "reddit"
\* the key of `results` the value of fetcher f is written to
keyOf(f) == f

\* the `results` of fetcher f after its loop over the origins, the last of which
\* answered `listing`, every item being tested at the reading `clock`
gatherOf(f, listing, clock) ==
  LET n == Len(listing)
      posts == [j \in 1..n |-> mapPost(listing[j], subreddits[Len(subreddits)])]
      articles == [j \in 1..n |-> mapArticle(listing[j], newsSources[Len(newsSources)])]
  IN CASE f = "reddit" ->
            IF \E j \in 1..n : posts[j].threw THEN catchSubreddit(<<>>).results
            ELSE Pick([j \in 1..n |-> posts[j].item],
                      { j \in 1..n : keepPost(posts[j].item, clock) }, 1)
       [] f = "research" ->
            Pick([j \in 1..n |-> paperItem(listing[j])],
                 { j \in 1..n : isRecent(listing[j].published, clock) }, 1)
       [] OTHER ->
            IF \E j \in 1..n : articles[j].threw THEN catchFeed(<<>>).results
            ELSE Pick([j \in 1..n |-> articles[j].item],
                      { j \in 1..n : isFromToday(articles[j].item.date, clock) }, 1)

OrderInit ==
  /\ ScrapeInit("anyOrder")
  /\ ctl = "none"
  /\ activeList = config.activeList
  /\ emailList = <<>>
  /\ registeredUsers = <<>>
  /\ call = noCall
  /\ attempts = <<>>
  /\ reports = <<>>
  /\ pure = [fn |-> "none"]
  /\ \E r \in Listings(RedditPool, 1), p \in Listings(ResearchPool, 1),
        n \in Listings(NewsPool, 1) :
       par = [on |-> TRUE,
              snapshot |-> [reddit |-> r, research |-> p, news |-> n],
              at |-> [f \in {"reddit", "research", "news"} |-> "waiting"],
              results |-> emptySources,
              seen |-> [f \in {"reddit", "research", "news"} |-> 0]]

\* a fetcher runs its loop over the origins: it reads the clock, and the requests take
\* their time
OrderFetch ==
  /\ par.on
  /\ \E f \in {"reddit", "research", "news"}, d \in Delays :
       /\ par.at[f] = "waiting"
       /\ now' = now + d
       /\ now' <= MaxNow
       /\ par' = [par EXCEPT !.at[f] = "fetched",
                             !.seen[f] = now,
                             !.results[f] = gatherOf(f, par.snapshot[f], now)]
  /\ UNCHANGED << pc, idx, results, today, out, returned, raisedBy, log, began, fetched,
                  itemsLeft, failsLeft, entry, mailVars, pure >>

\* a fetcher returns its sorted and cut `results`, which becomes the value of its key
OrderReturn ==
  /\ par.on
  /\ \E f \in {"reddit", "research", "news"} :
       /\ par.at[f] = "fetched"
       /\ par' = [par EXCEPT !.at[f] = "returned"]
       /\ out' = [out EXCEPT ![keyOf(f)] =
                    slice(ArraySort(par.results[f],
                                    IF f = "reddit" THEN "engagement" ELSE "date"),
                          CASE f = "reddit" -> RedditCap [] f = "research" -> ResearchCap
                            [] OTHER -> NewsCap)]
  /\ UNCHANGED << now, pc, idx, results, today, returned, raisedBy, log, began, fetched,
                  itemsLeft, failsLeft, entry, mailVars, pure >>

\* the three values are there: the trending flag is added and the object returned
OrderFinish ==
  /\ par.on
  /\ \A f \in {"reddit", "research", "news"} : par.at[f] = "returned"
  /\ returned = <<>>
  /\ LET sources == allSources(out.reddit, out.research, out.news)
     IN returned' = [key \in DOMAIN sources |-> withTrendingFlag(sources[key])]
  /\ UNCHANGED << now, pc, idx, results, today, out, raisedBy, log, began, fetched,
                  itemsLeft, failsLeft, entry, mailVars, pure, par >>

OrderNext ==
  \/ OrderFetch
  \/ OrderReturn
  \/ OrderFinish

OrderSpec == OrderInit /\ [][OrderNext]_vars

(***************************************************************************)
(* Two calls of scrapeAllSources on the one exported ScraperService: the   *)
(* cron job and a request, or two requests.  The calls share the instance  *)
(* (this.browser, which nothing launches) and the clock; each call has its *)
(* own `results` arrays.  A call takes a step where the code awaits: the   *)
(* loop of a fetcher, its return, and the end of scrapeAllSources with its *)
(* close().  The sources answer both calls from one snapshot.              *)
(***************************************************************************)
\* every call of a fetcher pushes to one array of the instance
arrayOfShared(r) == 1
\* const results = []: the array of the fetcher that call r of scrapeAllSources runs
arrayOf(r) == r

OverlapInit ==
  /\ ScrapeInit("overlap")
  /\ ctl = "none"
  /\ activeList = config.activeList
  /\ emailList = <<>>
  /\ registeredUsers = <<>>
  /\ call = noCall
  /\ attempts = <<>>
  /\ reports = <<>>
  /\ pure = [fn |-> "none"]
  /\ \E r \in Listings(RedditPool, 1), p \in Listings(ResearchPool, 1),
        n \in Listings(NewsPool, 1) :
       par = [on |-> FALSE,
              snapshot |-> [reddit |-> r, research |-> p, news |-> n],
              browser |-> "null",
              results |-> << <<>>, <<>> >>,
              runs |-> [r2 \in 1..2 |->
                          [at |-> << "reddit", "loop" >>,
                           seen |-> [f \in {"reddit", "research", "news"} |-> 0],
                           out |-> emptySources,
                           returned |-> <<>>]]]

\* a fetcher of call r: its new array, and its loop over the origins
OverlapFetch ==
  /\ "runs" \in DOMAIN par
  /\ \E r \in 1..2, d \in Delays :
       /\ par.runs[r].at \notin {<< "merge" >>, << "done" >>}
       /\ par.runs[r].at[2] = "loop"
       /\ now' = now + d
       /\ now' <= MaxNow
       /\ LET f == par.runs[r].at[1]
          IN par' = [par EXCEPT !.runs[r].at = << f, "return" >>,
                                !.runs[r].seen[f] = now,
                                !.results[arrayOf(r)] = gatherOf(f, par.snapshot[f], now)]
  /\ UNCHANGED << pc, idx, results, today, out, returned, raisedBy, log, began, fetched,
                  itemsLeft, failsLeft, entry, mailVars, pure >>

\* the fetcher of call r returns its sorted and cut `results`
OverlapReturn ==
  /\ "runs" \in DOMAIN par
  /\ \E r \in 1..2 :
       /\ par.runs[r].at \notin {<< "merge" >>, << "done" >>}
       /\ par.runs[r].at[2] = "return"
       /\ LET f == par.runs[r].at[1]
          IN par' = [par EXCEPT
                      !.runs[r].at = CASE f = "reddit" -> << "research", "loop" >>
                                       [] f = "research" -> << "news", "loop" >>
                                       [] OTHER -> << "merge" >>,
                      !.runs[r].out[f] =
                         slice(ArraySort(par.results[arrayOf(r)],
                                         IF f = "reddit" THEN "engagement" ELSE "date"),
                               CASE f = "reddit" -> RedditCap [] f = "research" -> ResearchCap
                                 [] OTHER -> NewsCap)]
  /\ UNCHANGED << now, pc, idx, results, today, out, returned, raisedBy, log, began, fetched,
                  itemsLeft, failsLeft, entry, mailVars, pure >>

\* the end of call r: the trending flag, close() (which closes the browser when there
\* is one and forgets it), return results
OverlapFinish ==
  /\ "runs" \in DOMAIN par
  /\ \E r \in 1..2 :
       /\ par.runs[r].at = << "merge" >>
       /\ LET mine == par.runs[r].out
              sources == allSources(mine.reddit, mine.research, mine.news)
          IN par' = [par EXCEPT
                      !.runs[r].at = << "done" >>,
                      !.runs[r].returned =
                         [key \in DOMAIN sources |-> withTrendingFlag(sources[key])],
                      !.browser = IF @ # "null" THEN "null" ELSE @]
  /\ UNCHANGED << now, pc, idx, results, today, out, returned, raisedBy, log, began, fetched,
                  itemsLeft, failsLeft, entry, mailVars, pure >>

OverlapNext ==
  \/ OverlapFetch
  \/ OverlapReturn
  \/ OverlapFinish

OverlapSpec == OverlapInit /\ [][OverlapNext]_vars

(***************************************************************************)
(* Vocabulary of the properties                                            *)
(***************************************************************************)
Fetchers == {"reddit", "research", "news"}
\* fetcher f was called and has returned
Ran(f) ==
  /\ entry \in {f} \cup Pipelines
  /\ pc \in (CASE f = "reddit" -> {"research", "news", "merge", "done"}
               [] f = "research" -> {"news", "merge", "done"}
               [] OTHER -> {"merge", "done"})

CapOf(f) == CASE f = "reddit" -> RedditCap [] f = "research" -> ResearchCap [] OTHER -> NewsCap
WindowOf(f) == IF f = "research" THEN ThreeDaysMs ELSE DayMs

\* the positions <<k, j>> of the raw items fetcher f received: item j of log entry k
Positions(f) ==
  UNION { { << k, j >> : j \in 1..Len(log[k].raw) } :
            k \in { k \in 1..Len(log) : log[k].fetcher = f } }
\* those of the origins whose processing completed
Tested(f) == { p \in Positions(f) : log[p[1]].kind = "ok" }
RawAt(p) == log[p[1]].raw[p[2]]
ReadingAt(p) == log[p[1]].seen[p[2]]

\* origin and link identify an item
IdAt(f, p) ==
  CASE f = "reddit" -> << subreddits[log[p[1]].origin].name, RawAt(p).permalink >>
    [] f = "research" -> << "arXiv", RawAt(p).link >>
    [] OTHER -> << newsSources[log[p[1]].origin].name, RawAt(p).link >>
IdOf(f, o) == IF f = "reddit" THEN << o.subreddit, o.link[2] >> ELSE << o.source, o.link >>
CountOut(f, id) == Cardinality({ i \in 1..Len(out[f]) : IdOf(f, out[f][i]) = id })

\* the instant a raw item is dated at, in milliseconds; -1 when its date does not parse
InstantAt(f, p) ==
  LET d == IF f = "reddit" THEN RawAt(p).created_utc
           ELSE IF f = "research" THEN RawAt(p).published ELSE RawAt(p).pubDate
  IN IF f = "reddit" THEN (IF d.k = "num" THEN d.v * 1000 ELSE -1)
     ELSE (IF d.k = "date" THEN d.v ELSE -1)
Dated(f, p) == InstantAt(f, p) >= 0
InWindow(t, clock, window) == clock - window <= t /\ t <= clock

\* a discussion item's own conditions besides recency
TrendingAndSignificant(p) ==
  /\ isTrending(RawAt(p), subreddits[log[p[1]].origin])
  /\ isSignificantContent(RawAt(p).title, RawAt(p).selftext)

\* the discussion items that meet the three conditions, the window being taken at the
\* reading the item was tested at (at the arrival of the listing when it never was)
QualifiesReddit(p) ==
  /\ Dated("reddit", p)
  /\ InWindow(InstantAt("reddit", p),
              IF log[p[1]].kind = "ok" THEN ReadingAt(p) ELSE log[p[1]].at, DayMs)
  /\ TrendingAndSignificant(p)
QualifyingReddit == { p \in Positions("reddit") : QualifiesReddit(p) }

(***************************************************************************)
(* C1.  For scrapeReddit, whenever at most 15 items qualify, an item an    *)
(* origin returned is in the output if and only if its timestamp is within *)
(* the 24-hour window, it is marked trending and its title and body hold a *)
(* significance keyword.  (Counted per item: an item returned n times      *)
(* while qualifying is n times in the output.)                             *)
(***************************************************************************)
C1_PresentIffQualifies ==
  Ran("reddit") /\ Cardinality(QualifyingReddit) <= RedditCap =>
    \A p \in Positions("reddit") :
      CountOut("reddit", IdAt("reddit", p)) =
        Cardinality({ q \in QualifyingReddit : IdAt("reddit", q) = IdAt("reddit", p) })

(***************************************************************************)
(* C2.  As claimed: for every discussion item, is_trending is true exactly *)
(* when its engagement (score + 2 x comments) exceeds the origin's         *)
(* threshold or its comment count exceeds 50.                              *)
(***************************************************************************)
C2_TrendingByEngagement ==
  \A p \in Tested("reddit") :
    LET item == log[p[1]].made[p[2]]
        minScore == subreddits[log[p[1]].origin].minScore
    IN item.is_trending <=>
         (JsGt(item.engagement, Num(minScore)) \/ JsGt(item.comments, Num(50)))

(***************************************************************************)
(* C2, amended.  For every discussion item, is_trending is true exactly    *)
(* when its score exceeds the origin's threshold or its comment count      *)
(* exceeds 50 (a missing score or count exceeds nothing).                  *)
(***************************************************************************)
C2_TrendingByScore ==
  \A p \in Tested("reddit") :
    LET item == log[p[1]].made[p[2]]
        data == RawAt(p)
        minScore == subreddits[log[p[1]].origin].minScore
    IN item.is_trending <=>
         \/ (data.score.k = "num" /\ data.score.v > minScore)
         \/ (data.num_comments.k = "num" /\ data.num_comments.v > 50)

\* an item whose engagement exceeds the threshold while its score does not was built,
\* and so was one that is trending
C2_Witness ==
  /\ \E p \in Tested("reddit") :
       LET data == RawAt(p)
           minScore == subreddits[log[p[1]].origin].minScore
       IN /\ data.score.k = "num" /\ data.num_comments.k = "num"
          /\ data.score.v + 2 * data.num_comments.v > minScore
          /\ data.score.v <= minScore
          /\ data.num_comments.v <= 50
          /\ ~log[p[1]].made[p[2]].is_trending
  /\ \E p \in Tested("reddit") : log[p[1]].made[p[2]].is_trending

\* the conditions of fetcher f on an item besides recency
OtherConditions(f, p) == f = "reddit" => TrendingAndSignificant(p)
\* the instant an output item is dated at
OutInstant(o) == ParseDate(o.date).v
\* the tested items that pass fetcher f's filter at the reading they were tested at
KeptAt(f, p) ==
  /\ Dated(f, p)
  /\ InWindow(InstantAt(f, p), ReadingAt(p), WindowOf(f))
  /\ OtherConditions(f, p)
Kept(f) == { p \in Tested(f) : KeptAt(f, p) }

C4_TopFifteen ==
  Ran("reddit") =>
    /\ Len(out.reddit) = Min(Cardinality(QualifyingReddit), RedditCap)
    /\ \A q \in QualifyingReddit :
         CountOut("reddit", IdAt("reddit", q))
             < Cardinality({ r \in QualifyingReddit : IdAt("reddit", r) = IdAt("reddit", q) })
         => \A i \in 1..Len(out.reddit) :
              ~JsGt(engagement(RawAt(q)), out.reddit[i].engagement)

(***************************************************************************)
(* C5.  scrapeReddit's output is in descending order of engagement, every  *)
(* item's engagement being >= that of the item after it, and items of      *)
(* equal engagement are in the order they were fetched in.                 *)
(***************************************************************************)
C5_StableDescending ==
  Ran("reddit") =>
    /\ \A i \in 1..(Len(out.reddit) - 1) :
         JsGe(out.reddit[i].engagement, out.reddit[i + 1].engagement)
    /\ \A i \in 1..Len(out.reddit) :
         LET Same(x) == x.engagement = out.reddit[i].engagement
             kept == SelectSeq(out.reddit, Same)
         IN kept = SubSeq(SelectSeq(fetched.reddit, Same), 1, Len(kept))

\* the kinds of a failed origin
Failed == {"reject", "malformed", "threw"}

(***************************************************************************)
(* C6.  Per-origin isolation: whatever origins fail, a fetcher returns     *)
(* without raising, and its output is made of the items that pass its      *)
(* filter in the origins that succeeded, those after a failing origin      *)
(* included: all of them when they are no more than the cap, and as many   *)
(* as the cap otherwise.                                                   *)
(***************************************************************************)
C6_OriginIsolation ==
  \A f \in Fetchers :
    Ran(f) =>
      \A kept \in {Kept(f)} :
        \A n \in {Cardinality(kept)} :
          /\ raisedBy = {}
          /\ Len(out[f]) = Min(n, CapOf(f))
          /\ \A id \in { IdAt(f, p) : p \in Positions(f) } :
               \A same \in {Cardinality({ q \in kept : IdAt(f, q) = id })} :
                 \A count \in {CountOut(f, id)} :
                   /\ count <= same
                   /\ n <= CapOf(f) => count = same

\* an origin failed, and the output holds an item of an origin that answered after it
C6_Witness ==
  \E f \in Fetchers :
    /\ Ran(f)
    /\ \E k \in 1..Len(log) :
         /\ log[k].fetcher = f
         /\ log[k].kind \in Failed
         /\ \E p \in Kept(f) : p[1] > k /\ CountOut(f, IdAt(f, p)) >= 1

(***************************************************************************)
(* C7.  An item whose date cannot be parsed is treated as not recent: it   *)
(* does not stop the processing of the listing it is in, and every item in *)
(* the output has a date that parses.                                      *)
(***************************************************************************)
C7_UnparseableDateNotRecent ==
  \A f \in Fetchers :
    /\ \A p \in Positions(f) :
         ( /\ ~Dated(f, p)
           /\ f = "news" => \A j \in 1..Len(log[p[1]].raw) : log[p[1]].raw[j].title.k = "str" )
         => log[p[1]].kind = "ok"
    /\ \A i \in 1..Len(out[f]) : ParseDate(out[f][i].date).k = "num"

\* a missing number read as zero
OrZero(x) == IF x.k = "num" THEN x.v ELSE 0

(***************************************************************************)
(* C8.  A discussion item whose score or comment count is missing is       *)
(* handled with 0 in place of the missing value: the processing of its     *)
(* listing does not fail, its engagement and trending flag are those       *)
(* computed with 0, and the output is still in descending order of         *)
(* engagement.                                                             *)
(***************************************************************************)
C8_MissingEngagementAsZero ==
  /\ \A p \in Positions("reddit") :
       LET data == RawAt(p)
           minScore == subreddits[log[p[1]].origin].minScore
       IN ( /\ data.score.k # "num" \/ data.num_comments.k # "num"
            /\ \A j \in 1..Len(log[p[1]].raw) : Dated("reddit", << p[1], j >>) )
          => /\ log[p[1]].kind = "ok"
             /\ log[p[1]].made[p[2]].engagement
                  = Num(OrZero(data.score) + 2 * OrZero(data.num_comments))
             /\ log[p[1]].made[p[2]].is_trending
                  = (OrZero(data.score) > minScore \/ OrZero(data.num_comments) > 50)
  /\ Ran("reddit") =>
       \A i \in 1..(Len(out.reddit) - 1) :
         JsGe(out.reddit[i].engagement, out.reddit[i + 1].engagement)

IsSequence(x) == DOMAIN x = 1..Len(x)

(***************************************************************************)
(* C9.  scrapeAllSources returns a result with the three keys reddit,      *)
(* research and news, each mapping to a sequence, also when the three      *)
(* fetchers return empty sequences.                                        *)
(***************************************************************************)
C9_CompleteResult ==
  (entry = "scrapeAllSources" /\ pc = "done") =>
    /\ DOMAIN returned = {"reddit", "research", "news"}
    /\ \A key \in DOMAIN returned : IsSequence(returned[key])

\* scrapeAllSources returned after the three fetchers returned empty sequences
C9_Witness ==
  /\ entry = "scrapeAllSources"
  /\ pc = "done"
  /\ out = emptySources
  /\ \A key \in {"reddit", "research", "news"} : returned[key] = <<>>

(***************************************************************************)
(* C10.  Whatever origins fail, none of scrapeReddit, scrapeResearchPapers,*)
(* scrapeAINews and scrapeAllSources raises to its caller, and each        *)
(* returns a value.                                                        *)
(***************************************************************************)
C10_NeverRaises ==
  /\ raisedBy = {}
  /\ \A f \in Fetchers : Ran(f) => IsSequence(out[f])
  /\ (entry = "scrapeAllSources" /\ pc = "done") => DOMAIN returned = DOMAIN emptySources

\* scrapeAllSources returned after a request of a fetcher failed
C10_Witness ==
  /\ entry = "scrapeAllSources"
  /\ pc = "done"
  /\ raisedBy = {}
  /\ \E k \in 1..Len(log) : log[k].kind \in {"reject", "malformed"}

(***************************************************************************)
(* Delivery of the digest                                                  *)
(***************************************************************************)
\* C11: every run of sendDailyDigest whose active recipient list is not empty attempts
\* a send of the digest to that list, whatever the sources answered: a run that has
\* ended has made the attempt
C11_EveryRunAttemptsDelivery ==
  (/\ entry = "sendDailyDigest"
   /\ ctl = "end"
   /\ ~getActiveEmailList(activeList).threw
   /\ Len(getActiveEmailList(activeList).v) > 0)
  => (\E i \in 1..Len(attempts) :
        /\ attempts[i].fn = "sendToEmailList"
        /\ attempts[i].to
             = sliceFrom(getActiveEmailList(activeList).v, 0, maxRecipientsPerEmail)
        /\ attempts[i].html = formatDigestEmail(returned).v)

\* the functions that send a digest in batches
BatchSenders == {"sendToEmailList", "sendBulkDailyDigest"}

\* the sends function fn has attempted, in the order of the attempts
AttemptsOf(fn) == SelectSeq(attempts, LAMBDA a : a.fn = fn)

\* the calls of the batch senders that have returned
Returned == {i \in 1..Len(reports) : reports[i].fn \in BatchSenders /\ ~reports[i].raised}

\* C12: a call of sendToEmailList or sendBulkDailyDigest with n >= 1 addresses makes
\* exactly ceil(n / 50) send attempts; the batches are the contiguous slices of the
\* list in order, each of at most 50 addresses, only the last one possibly smaller,
\* and every address is in exactly one batch
C12_BatchesPartitionTheList ==
  \A i \in Returned :
    \A to \in {reports[i].to}, mine \in {AttemptsOf(reports[i].fn)} :
      Len(to) >= 1 =>
        /\ Len(mine) = (Len(to) + maxRecipientsPerEmail - 1) \div maxRecipientsPerEmail
        /\ \A k \in 1..Len(mine) :
             /\ Len(mine[k].to) <= maxRecipientsPerEmail
             /\ k < Len(mine) => Len(mine[k].to) = maxRecipientsPerEmail
             /\ Len(mine[k].to) >= 1
        /\ \A p \in 1..Len(to) :
             /\ ((p - 1) \div maxRecipientsPerEmail) + 1 <= Len(mine)
             /\ ((p - 1) % maxRecipientsPerEmail) + 1
                  <= Len(mine[((p - 1) \div maxRecipientsPerEmail) + 1].to)
             /\ mine[((p - 1) \div maxRecipientsPerEmail) + 1].to
                  [((p - 1) % maxRecipientsPerEmail) + 1] = to[p]
        /\ Len(to) = (Len(mine) - 1) * maxRecipientsPerEmail + Len(mine[Len(mine)].to)

\* a list of 120 addresses has been sent in three batches of 50, 50 and 20
C12_Witness ==
  \E i \in Returned :
    /\ reports[i].fn = "sendToEmailList"
    /\ Len(reports[i].to) = 120
    /\ Len(attempts) = 3
    /\ Len(attempts[1].to) = 50 /\ Len(attempts[2].to) = 50 /\ Len(attempts[3].to) = 20

(***************************************************************************)
(* A call of a batch sender on its own.  Every awaited send settles (the   *)
(* promise of resend.emails.send resolves or rejects) and the event loop   *)
(* then runs the continuation, so the loop and the return are taken when   *)
(* they are possible.                                                      *)
(***************************************************************************)
MailInit ==
  /\ \E e \in BatchSenders : ScrapeInit(e)
  /\ ctl = "direct"
  /\ activeList = config.activeList
  /\ emailList = <<>>
  /\ registeredUsers = <<>>
  /\ call = noCall
  /\ attempts = <<>>
  /\ reports = <<>>
  /\ pure = [fn |-> "none"]
  /\ par = [on |-> FALSE]

MailNext ==
  \/ CallSendToEmailList
  \/ CallSendBulkDailyDigest
  \/ SendBatch
  \/ ReturnResults

MailLive == MailInit /\ [][MailNext]_vars /\ WF_vars(SendBatch) /\ WF_vars(ReturnResults)

\* C13: a failed batch does not block the remaining batches: every batch of a call of
\* sendToEmailList or sendBulkDailyDigest is attempted exactly once, in the order of
\* the batches, whatever the outcome of the batches before it
C13_EveryBatchAttemptedInOrder ==
  /\ [](call.fn \in BatchSenders =>
          /\ Len(attempts) = call.at - 1
          /\ Len(attempts) <= Len(call.emailBatches)
          /\ \A k \in 1..Len(attempts) : attempts[k].to = call.emailBatches[k])
  /\ \A k \in 1..((MaxRecipients + maxRecipientsPerEmail - 1) \div maxRecipientsPerEmail) :
       (call.fn \in BatchSenders /\ k <= Len(call.emailBatches))
         ~> (/\ call = noCall
             /\ Len(reports) = 1 /\ ~reports[1].raised
             /\ k <= Len(attempts)
             /\ attempts[k].to
                  = sliceFrom(reports[1].to, (k - 1) * maxRecipientsPerEmail,
                              k * maxRecipientsPerEmail)
             /\ Len(attempts) * maxRecipientsPerEmail
                  < Len(reports[1].to) + maxRecipientsPerEmail)

\* the first of three batches failed and the call has returned after three attempts
C13_Witness ==
  /\ call = noCall
  /\ Len(attempts) = 3
  /\ attempts[1].outcome # "sent"
  /\ Len(reports) = 1 /\ ~reports[1].raised

\* C14: a batch that fails is surfaced in the value the batch sender returns: the value
\* holds one outcome for every batch that was attempted, a success or a failure, and
\* the function does not raise because a batch failed
C14_OneOutcomePerBatch ==
  \A i \in 1..Len(reports) :
    reports[i].fn \in BatchSenders =>
      /\ reports[i].raised => AttemptsOf(reports[i].fn) = <<>>
      /\ ~reports[i].raised => Len(reports[i].value) = Len(AttemptsOf(reports[i].fn))

(***************************************************************************)
(* Recipient selection and tag extraction                                  *)
(***************************************************************************)
\* C15: getActiveEmailList returns the addresses of the group the selector names; for
\* 'all' the addresses of all groups, each once; it always returns a sequence of
\* addresses, the empty one for an unknown selector, and never raises
C15_RecipientSelection ==
  LET Groups == {"main", "team", "vip", "test"}
      GroupOf(name) == IF name \in DOMAIN emailLists THEN emailLists[name] ELSE <<>>
  IN pure.fn = "getActiveEmailList" =>
       \A k \in 1..Len(pure.values) :
         \A got \in {pure.values[k]} :
           /\ ~got.threw
           /\ got.kind = "array"
           /\ activeList \in Groups => got.v = GroupOf(activeList)
           /\ activeList = "all" =>
                /\ {got.v[i] : i \in 1..Len(got.v)}
                     = UNION {{GroupOf(g)[i] : i \in 1..Len(GroupOf(g))} : g \in Groups}
                /\ \A i, j \in 1..Len(got.v) : got.v[i] = got.v[j] => i = j
           /\ activeList \notin Groups \cup {"all"} => got.v = <<>>

\* the value of a call of extractTags on `text` holds exactly the entries of the
\* vocabulary whose lowercase form is a substring of the lowercased text, each once
ExactlyTheTagsIn(text, value) ==
  /\ \A i \in 1..Len(commonTags) :
       (\E j \in 1..Len(value) : value[j] = commonTags[i])
         <=> includes(toLowerCase(text), toLowerCase(commonTags[i]))
  /\ \A j \in 1..Len(value) : \E i \in 1..Len(commonTags) : value[j] = commonTags[i]
  /\ \A i, j \in 1..Len(value) : value[i] = value[j] => i = j

WithinWindowAt(f, clock) ==
  { p \in Positions(f) : Dated(f, p) /\ InWindow(InstantAt(f, p), clock, WindowOf(f)) }

\* the output of fetcher f is made of the entries of `kept` and of nothing else: all of
\* them when they are no more than the cap, else as many as the cap and none older
\* than one left out; it is in descending order of date and every item is trending
MostRecentOf(f, kept) ==
  \A n \in {Cardinality(kept)} :
    /\ Len(out[f]) = Min(n, CapOf(f))
    /\ \A id \in { IdAt(f, p) : p \in Positions(f) } :
         \A same \in {Cardinality({ q \in kept : IdAt(f, q) = id })} :
           \A count \in {CountOut(f, id)} :
             /\ count <= same
             /\ n <= CapOf(f) => count = same
             /\ count < same =>
                  \A q \in kept, i \in 1..Len(out[f]) :
                    IdAt(f, q) = id => InstantAt(f, q) <= OutInstant(out[f][i])
    /\ \A i \in 1..Len(out[f]) :
         /\ out[f][i].is_trending = TRUE
         /\ i < Len(out[f]) => OutInstant(out[f][i]) >= OutInstant(out[f][i + 1])

\* C16: scrapeResearchPapers keeps exactly the entries, over all categories, that are
\* dated within the 3 days before the fetch time, whatever their text, marks each as
\* trending, and returns them in descending order of date, cut to the 10 most recent
C16_PapersOfThreeDays ==
  Ran("research") =>
    \A kept \in {WithinWindowAt("research", began.research)} :
      /\ WindowOf("research") = 3 * DayMs
      /\ MostRecentOf("research", kept)

\* more than 10 papers were within the window and the 10 returned are not all of one
\* date, while a paper dated a second before the window was received and left out
C16_Witness ==
  /\ Ran("research")
  /\ Cardinality(WithinWindowAt("research", began.research)) > ResearchCap
  /\ Len(out.research) = ResearchCap
  /\ OutInstant(out.research[1]) > OutInstant(out.research[ResearchCap])
  /\ \E q \in Positions("research") :
       /\ InstantAt("research", q) = began.research - 3 * DayMs - TickMs
       /\ CountOut("research", IdAt("research", q)) = 0

AsFetched(content) ==
  /\ DOMAIN content = {"reddit", "research", "news"}
  /\ \A key \in DOMAIN content : content[key] = out[key]

\* the page holds one card for every item the fetchers returned, in their order
RenderedAsFetched(html) ==
  \A s \in 1..Len(html) :
    /\ Len(html[s].cards) = Len(out[html[s].section])
    /\ \A i \in 1..Len(html[s].cards) :
         /\ html[s].cards[i].link = out[html[s].section][i].link
         /\ html[s].cards[i].title = out[html[s].section][i].title

\* C19: the assembly of the digest neither reorders nor truncates nor changes the
\* items: the three sequences sendDailyDigest hands to sendToEmailList and to
\* sendBulkDailyDigest, and that formatDigestEmail renders, are the sequences the
\* three fetchers returned, in order, length and content
C19_DigestAsFetched ==
  entry = "sendDailyDigest" =>
    /\ call.fn \in BatchSenders => AsFetched(call.content) /\ RenderedAsFetched(call.html)
    /\ \A i \in 1..Len(reports) :
         reports[i].fn \in BatchSenders => AsFetched(reports[i].content)
    /\ \A k \in 1..Len(attempts) : RenderedAsFetched(attempts[k].html)

\* a digest with the 10 papers and the 10 articles the fetchers returned has been sent
\* to the configured list
C19_Witness ==
  /\ entry = "sendDailyDigest"
  /\ Len(out.research) = ResearchCap
  /\ Len(out.news) = NewsCap
  /\ out.research[1] # out.research[ResearchCap]
  /\ \E i \in 1..Len(reports) :
       /\ reports[i].fn = "sendToEmailList"
       /\ ~reports[i].raised
       /\ reports[i].content.research = out.research
  /\ \E k \in 1..Len(attempts) : Len(attempts[k].html[1].cards) = ResearchCap

(***************************************************************************)
(* The order of the fetchers                                               *)
(***************************************************************************)
\* the object scrapeAllSources returns when fetcher f tests its items at reading
\* clocks[f]
ResultAt(clocks) ==
  [f \in {"reddit", "research", "news"} |->
     withTrendingFlag(slice(ArraySort(gatherOf(f, par.snapshot[f], clocks[f]),
                                      IF f = "reddit" THEN "engagement" ELSE "date"),
                            CapOf(f)))]

\* C20 as stated: for a fixed snapshot of the sources the aggregated result is the
\* same in whatever order, one after the other or interleaved, the three fetchers
\* execute: it is the result of the run in which they all start at once
C20_SameResultInAnyOrder ==
  (par.on /\ returned # <<>>) =>
    returned = ResultAt([f \in {"reddit", "research", "news"} |-> StartMs])

\* C20, amended: in whatever order the fetchers execute, the value under each key is
\* the value its fetcher computes from its own sources at the clock reading it took
\* itself, and a key is written by its own fetcher alone
C20_SameResultAtSameReadings ==
  par.on =>
    /\ \A f \in {"reddit", "research", "news"} :
         par.at[f] # "returned" => out[f] = <<>>
    /\ returned # <<>> => returned = ResultAt(par.seen)

\* the news fetcher read the clock before the discussion fetcher did, and every
\* fetcher has an item in its value
C20_Witness ==
  /\ par.on
  /\ returned # <<>>
  /\ par.seen.news < par.seen.reddit
  /\ \A f \in {"reddit", "research", "news"} : Len(returned[f]) = 1

(***************************************************************************)
(* C21.  Every outbound request is bounded by a timeout: a request whose   *)
(* origin never answers is abandoned and counts as no data from that       *)
(* origin, the remaining origins and fetchers are processed, and the run   *)
(* terminates.  Stated for the run: every run comes to its end.            *)
(***************************************************************************)
C21_EveryRunTerminates == <>(pc = "done")

(***************************************************************************)
(* C22.  The caps of the sources hold in every aggregated result and carry *)
(* through to the digest: with a, b and c items passing the filters of the *)
(* three fetchers, the values the fetchers return, the result of           *)
(* scrapeAllSources, the content handed to the senders and the page that   *)
(* is sent hold min(a, 15) discussion items, min(b, 10) papers and         *)
(* min(c, 10) news items.                                                  *)
(***************************************************************************)
C22_CapsCarryThrough ==
  \A f \in Fetchers :
    Ran(f) =>
      \A n \in {Min(Cardinality(Kept(f)), CapOf(f))} :
        /\ Len(out[f]) = n
        /\ (entry \in Pipelines /\ pc = "done") => Len(returned[f]) = n
        /\ entry = "sendDailyDigest" =>
             /\ call.fn \in BatchSenders => Len(call.content[f]) = n
             /\ \A i \in 1..Len(reports) :
                  reports[i].fn \in BatchSenders => Len(reports[i].content[f]) = n
             /\ \A k \in 1..Len(attempts) :
                  \E s \in 1..Len(attempts[k].html) :
                    /\ attempts[k].html[s].section = f
                    /\ Len(attempts[k].html[s].cards) = n

\* 16 items passed the filter of every fetcher and a page with 15 discussion items,
\* 10 papers and 10 news items was sent to the configured list
C22_Witness ==
  /\ entry = "sendDailyDigest"
  /\ pc = "done"
  /\ \A f \in Fetchers : Cardinality(Kept(f)) = BigLen
  /\ Len(returned.reddit) = RedditCap
  /\ Len(returned.research) = ResearchCap
  /\ Len(returned.news) = NewsCap
  /\ \E k \in 1..Len(attempts) :
       /\ attempts[k].outcome = "sent"
       /\ Len(attempts[k].html[1].cards) = ResearchCap
       /\ Len(attempts[k].html[2].cards) = NewsCap
       /\ Len(attempts[k].html[3].cards) = RedditCap

(***************************************************************************)
(* C23.  Within one fetch the recency window of every item is taken at one *)
(* fetch-time reading of the clock: whether an item is kept does not       *)
(* depend on the time that passes between the start of the fetch and the   *)
(* test of the item.  Two items of one fetch that are dated at the same    *)
(* instant and agree on the other conditions of the filter are both in the *)
(* output or both left out (nothing being cut by the cap).                 *)
(***************************************************************************)
C23_OneNowPerFetch ==
  \A f \in Fetchers :
    (Ran(f) /\ Len(out[f]) < CapOf(f)) =>
      \A tested \in {Tested(f)} :
        \A p, q \in tested :
          ( /\ Dated(f, p)
            /\ InstantAt(f, p) = InstantAt(f, q)
            /\ IdAt(f, p) # IdAt(f, q)
            /\ OtherConditions(f, p) <=> OtherConditions(f, q) )
          => (CountOut(f, IdAt(f, p)) >= 1 <=> CountOut(f, IdAt(f, q)) >= 1)

(***************************************************************************)
(* C24.  The fetchers share no mutable state: when two calls of            *)
(* scrapeAllSources on the shared instance overlap, each call returns the  *)
(* result it would return alone (the result of its own fetchers on the     *)
(* answers of the sources, at the clock readings the call took), and no    *)
(* step of the other call, its close() included, changes a value the call  *)
(* has computed.                                                           *)
(***************************************************************************)
C24_OverlappingRunsAsAlone ==
  "runs" \in DOMAIN par =>
    \A r \in 1..2 :
      \A alone \in {ResultAt(par.runs[r].seen)} :
        /\ \A f \in Fetchers :
             withTrendingFlag(par.runs[r].out[f])
               = IF par.runs[r].seen[f] = 0 \/ par.runs[r].at = << f, "return" >>
                   THEN <<>>
                   ELSE alone[f]
        /\ par.runs[r].at = << "done" >> => par.runs[r].returned = alone
        /\ par.browser = "null"

\* both calls have returned, each began before the other had fetched its news, and
\* they return different results with an item under every key
C24_Witness ==
  /\ "runs" \in DOMAIN par
  /\ \A r \in 1..2 : par.runs[r].at = << "done" >>
  /\ par.runs[1].seen.reddit < par.runs[2].seen.news
  /\ par.runs[2].seen.reddit < par.runs[1].seen.news
  /\ par.runs[1].returned # par.runs[2].returned
  /\ \E r \in 1..2 : \A f \in Fetchers : Len(par.runs[r].returned[f]) = 1

(***************************************************************************)
(* C25.  When the primary access path of the discussion fetcher is         *)
(* unavailable (the request to an origin is refused), the fetcher asks the *)
(* same origin again over its fallback path instead of giving the origin   *)
(* up; and a fetcher without a fallback returns a sequence, an empty one   *)
(* when it has no data, and does not raise.                                *)
(***************************************************************************)
C25_FallbackForRefusedOrigins ==
  /\ Ran("reddit") =>
       \A k \in 1..Len(log) :
         (log[k].fetcher = "reddit" /\ log[k].kind = "reject") =>
           \E k2 \in (k + 1)..Len(log) :
             log[k2].fetcher = "reddit" /\ log[k2].origin = log[k].origin
  /\ \A f \in {"research", "news"} :
       Ran(f) => /\ raisedBy = {}
                 /\ IsSequence(out[f])
                 /\ (\A k \in 1..Len(log) : log[k].fetcher = f => log[k].kind # "ok")
                      => out[f] = <<>>

(***************************************************************************)
(* C26.  The controller's sendDailyDigest never raises to its caller, so   *)
(* every answer to POST /api/cron/daily is success: true and none is the   *)
(* answer of the 500 branch, also after a run in which every delivery      *)
(* attempt failed or none was made.                                        *)
(***************************************************************************)
C26_DailyAlwaysAnswersSuccess ==
  /\ "sendDailyDigest" \notin raisedBy
  /\ \A i \in 1..Len(reports) :
       reports[i].fn = "POST /api/cron/daily" =>
         /\ ~reports[i].raised
         /\ reports[i].value = [status |-> 200, success |-> TRUE]

\* the request was answered after a run whose recipient lookup raised, so that nothing
\* was sent
C26_Witness ==
  /\ ctl = "answered"
  /\ attempts = <<>>
  /\ \E i \in 1..Len(reports) : reports[i].fn = "User.findAll" /\ reports[i].raised
  /\ reports[Len(reports)].value.success

(***************************************************************************)
(* C27.  In sendDailyDigest the two channels are independent and ordered:  *)
(* the configured list is sent to first, and when registered users are     *)
(* enabled and exist, sendBulkDailyDigest is called for them afterwards,   *)
(* whether the send to the list succeeded, raised or was skipped because   *)
(* the list is empty.  Nothing goes to the registered users before the     *)
(* send to the list is over.                                               *)
(***************************************************************************)
C27_ListThenUsers ==
  entry = "sendDailyDigest" =>
    /\ ctl \in {"scrape", "list", "listing"} =>
         /\ \A k \in 1..Len(attempts) : attempts[k].fn = "sendToEmailList"
         /\ \A i \in 1..Len(reports) :
              reports[i].fn \notin {"sendBulkDailyDigest", "sendDailyDigest"}
    /\ \A k \in 1..Len(attempts) :
         attempts[k].fn = "sendToEmailList" =>
           \A k2 \in 1..k : attempts[k2].fn = "sendToEmailList"
    /\ ( /\ ctl \in {"end", "answered"}
         /\ \A i \in 1..Len(reports) :
              reports[i].fn \notin {"getActiveEmailList", "User.findAll"} )
       => /\ Len(emailList) > 0 =>
               \E i \in 1..Len(reports) :
                 reports[i].fn = "sendToEmailList" /\ reports[i].to = emailList
          /\ (config.includeRegisteredUsers /\ Len(registeredUsers) > 0) =>
               \E i \in 1..Len(reports) :
                 /\ reports[i].fn = "sendBulkDailyDigest"
                 /\ reports[i].to = emailAddresses(registeredUsers)
                 /\ \A i2 \in 1..Len(reports) :
                      reports[i2].fn = "sendToEmailList" => i2 < i

\* the send to the configured list raised, and sendBulkDailyDigest was called for the
\* two registered users afterwards
C27_Witness ==
  /\ entry = "sendDailyDigest"
  /\ ctl \in {"end", "answered"}
  /\ Len(registeredUsers) = MaxUsers
  /\ \E i \in 1..Len(reports) :
       /\ reports[i].fn = "sendToEmailList"
       /\ reports[i].raised
       /\ \E i2 \in (i + 1)..Len(reports) : reports[i2].fn = "sendBulkDailyDigest"

(***************************************************************************)
(* C28.  In sendDailyDigest nothing is sent before the scrape and the      *)
(* recipient lookups (getActiveEmailList, and User.findAll when            *)
(* includeRegisteredUsers is set) have completed; when a lookup raises,    *)
(* the run ends without a single delivery attempt, the configured list     *)
(* included, and sendDailyDigest still returns normally.                   *)
(***************************************************************************)
C28_LookupsBeforeAnySend ==
  entry = "sendDailyDigest" =>
    /\ (pc # "done" \/ ctl = "scrape") =>
         attempts = <<>> /\ reports = <<>> /\ call = noCall
    /\ (\E i \in 1..Len(reports) : reports[i].fn \in {"getActiveEmailList", "User.findAll"})
       => /\ attempts = <<>>
          /\ call = noCall
          /\ \A i \in 1..Len(reports) :
               reports[i].fn \notin {"sendToEmailList", "sendBulkDailyDigest",
                                     "sendDailyDigest"}
          /\ ctl \in {"end", "answered"}
          /\ "sendDailyDigest" \notin raisedBy

\* User.findAll rejected while the configured list holds addresses: the run is over
\* and nothing was sent
C28_Witness ==
  /\ entry = "sendDailyDigest"
  /\ ctl = "end"
  /\ Len(getActiveEmailList(activeList).v) > 0
  /\ \E i \in 1..Len(reports) : reports[i].fn = "User.findAll" /\ reports[i].raised
  /\ attempts = <<>>
  /\ "sendDailyDigest" \notin raisedBy

(***************************************************************************)
(* C29.  The per-user fallback of sendDailyDigest runs only when           *)
(* sendBulkDailyDigest raises; then EmailService.sendDailyDigest is called *)
(* once for every registered user, in their order, the failure of one call *)
(* not stopping the calls for the others.  A batch that fails inside       *)
(* sendBulkDailyDigest is absorbed there: it never starts the fallback,    *)
(* and its recipients get no further attempt.                              *)
(***************************************************************************)
C29_FallbackOnlyWhenBulkRaises ==
  \A single \in {{ i \in 1..Len(reports) : reports[i].fn = "sendDailyDigest" }} :
    /\ single # {} =>
         \E b \in 1..Len(reports) :
           /\ reports[b].fn = "sendBulkDailyDigest"
           /\ reports[b].raised
           /\ single = (b + 1)..(b + Len(registeredUsers))
           /\ \A u \in 1..Len(registeredUsers) :
                reports[b + u].to = << registeredUsers[u].email >>
    /\ entry = "sendDailyDigest" =>
         \A b \in 1..Len(reports) :
           (reports[b].fn = "sendBulkDailyDigest" /\ reports[b].raised)
             => Cardinality(single) = Len(registeredUsers)
    /\ \A k \in 1..Len(attempts) :
         (attempts[k].fn = "sendBulkDailyDigest" /\ attempts[k].outcome # "sent") =>
           /\ single = {}
           /\ \A k2 \in 1..Len(attempts) :
                (k2 # k /\ attempts[k2].fn = "sendBulkDailyDigest") =>
                  \A a \in 1..Len(attempts[k].to), a2 \in 1..Len(attempts[k2].to) :
                    attempts[k].to[a] # attempts[k2].to[a2]

\* sendBulkDailyDigest raised for two registered users and the two calls for the
\* single users were made, the first of which raised
C29_Witness ==
  /\ entry = "sendDailyDigest"
  /\ Len(registeredUsers) = MaxUsers
  /\ \E b \in 1..Len(reports) :
       /\ reports[b].fn = "sendBulkDailyDigest"
       /\ reports[b].raised
       /\ Len(reports) >= b + MaxUsers
       /\ reports[b + 1].fn = "sendDailyDigest"
       /\ reports[b + 1].raised
       /\ reports[b + MaxUsers].fn = "sendDailyDigest"
       /\ reports[b + MaxUsers].to = << registeredUsers[MaxUsers].email >>

(***************************************************************************)
(* C30.  Failure isolation is per origin, not per item: when the building  *)
(* of one item of an origin's response raises (a discussion post whose     *)
(* timestamp is not a number, a news entry without a title), all items of  *)
(* that origin, the valid qualifying ones included, are absent from the    *)
(* output, and the items of every other origin are unaffected: those that  *)
(* pass the filter are in the output (all of them when no more than the    *)
(* cap pass).                                                              *)
(***************************************************************************)
C30_IsolationPerOrigin ==
  \A f \in {"reddit", "news"} :
    Ran(f) =>
      /\ \A k \in 1..Len(log) :
           ( /\ log[k].fetcher = f
             /\ \E j \in 1..Len(log[k].raw) :
                  IF f = "reddit" THEN log[k].raw[j].created_utc.k # "num"
                                  ELSE log[k].raw[j].title.k # "str" )
           => \A j \in 1..Len(log[k].raw) : CountOut(f, IdAt(f, << k, j >>)) = 0
      /\ \A kept \in {Kept(f)} :
           /\ Len(out[f]) = Min(Cardinality(kept), CapOf(f))
           /\ Cardinality(kept) <= CapOf(f) =>
                \A p \in kept : CountOut(f, IdAt(f, p)) >= 1

\* a subreddit listed a qualifying post next to a post without a timestamp: neither is
\* in the output, which holds the posts of the subreddit after it
C30_Witness ==
  /\ Ran("reddit")
  /\ \E k \in 1..Len(log) :
       /\ log[k].fetcher = "reddit"
       /\ log[k].kind = "threw"
       /\ Len(log[k].raw) = 2
       /\ \E j \in 1..2 : QualifiesReddit(<< k, j >>)
       /\ \E j \in 1..2 : log[k].raw[j].created_utc.k # "num"
       /\ \A j \in 1..2 : CountOut("reddit", IdAt("reddit", << k, j >>)) = 0
       /\ \E k2 \in (k + 1)..Len(log) : log[k2].fetcher = "reddit" /\ log[k2].kind = "ok"
  /\ Len(out.reddit) = RedditCap

====
